---- MODULE Spec2Model ----
(***************************************************************************)
(* Model of the transactional stock-ledger subsystem of riom:              *)
(*   sku.service      (src/unnamed/part_002, lines 78-639)                 *)
(*   order.service    (src/src/services/settings.service.js, lines 77-671) *)
(*   product.service  (src/src/services/product.service.js, createProduct) *)
(*   error middleware (src/src/middleware/errorHandler.js)                 *)
(* over a MongoDB store.  Multi-document transactions are modelled as the  *)
(* store provides them: a transaction reads from the snapshot taken at its *)
(* first operation plus its own writes, and a write to a document that     *)
(* another transaction has written (uncommitted, or committed after the    *)
(* snapshot) fails with WriteConflict.                                     *)
(***************************************************************************)
EXTENDS Integers, Sequences, FiniteSets, TLC

(* ------------------------------ bounds --------------------------------- *)
Procs == {1, 2}

MaxCalls == 2

MaxFaults == 1

\* callback re-runs withTransaction makes before its time limit expires
MaxRetries == 1

MaxInitStock == 2

MaxQty == 2

SkuIds == {"A", "B", "C"}

\* the SKUs the stock operations are called for
StockedSkus == {"A", "B"}

NoSku == "none"

OrderNumbers == {"N1", "N2"}

\* in the specification of fractional stock, numbers count 1/StockScale units
StockScale == 2

(* ------------------------------ errors --------------------------------- *)
Err(code, message) == [code |-> code, message |-> message, sku |-> ""]

\* an error whose message ends with a SKU code
ErrSku(code, message, s) == [code |-> code, message |-> message, sku |-> s]

NoErr == Err("OK", "")

WriteConflictErr == Err("WriteConflict", "WriteConflict")

StorageErr == Err("StorageError", "storage failure")

(* ------------------------------ values --------------------------------- *)
Num(n) == [kind |-> "num", val |-> n]

NullValue == [kind |-> "null", val |-> 0]

NaNValue == [kind |-> "nan", val |-> 0]

ToNumber(v) == IF v.kind = "nan" THEN NaNValue ELSE Num(v.val)

\* a ledger entry with its before and after values exchanged
HistoryEntrySwapped(skuId, change, previousStock, newStock, reason, referenceOrderId) ==
  [skuId |-> skuId, change |-> change, previousStock |-> newStock,
   newStock |-> previousStock, reason |-> reason, referenceOrderId |-> referenceOrderId]

HistoryEntry(skuId, change, previousStock, newStock, reason, referenceOrderId) ==
  [skuId |-> skuId, change |-> change, previousStock |-> previousStock,
   newStock |-> newStock, reason |-> reason, referenceOrderId |-> referenceOrderId]

NoDoc == [exists |-> FALSE, stock |-> 0]

NoWrite == [written |-> FALSE, stock |-> 0]

NoTxn ==
  [state |-> "none", hasSnap |-> FALSE, snap |-> [s \in SkuIds |-> NoDoc],
   wsku |-> [s \in SkuIds |-> NoWrite], wledger |-> <<>>, worders |-> <<>>,
   stale |-> {}]

IdleCall ==
  [op |-> "idle", pc |-> "idle", id |-> 0, skuId |-> NoSku, delta |-> NullValue,
   reason |-> "", list |-> <<>>, idx |-> 0, orderNumber |-> "",
   prepared |-> <<>>, results |-> <<>>, err |-> NoErr, totalItems |-> 0,
   stock |-> 0, retries |-> 0, stage |-> "", price |-> 0, barcode |-> <<>>,
   threshold |-> NullValue, attempts |-> 0, tax |-> NullValue, taxRate |-> NullValue,
   subTotal |-> 0, taxAmount |-> 0]

VARIABLES sku, initialStock, ledger, orders, skuCount, call, txn, ncalls, nfaults,
          settings, price, barcode, reorderThreshold, product, totalStock

vars == <<sku, initialStock, ledger, orders, skuCount, call, txn, ncalls, nfaults,
          settings, price, barcode, reorderThreshold, product, totalStock>>

\* the fields of the SKU documents that no stock operation writes, and the
\* Settings document
catalog == <<settings, price, barcode, reorderThreshold>>

store == <<sku, ledger, orders>>

\* the sum the post-save hook of the SKU computes: the stock of the SKU
\* documents of the product as Sku.find, called without a session, returns them
SumStock(docs) ==
  LET RECURSIVE Sum(_)
      Sum(S) == IF S = {} THEN 0
                ELSE LET s == CHOOSE x \in S : TRUE
                     IN (IF docs[s].exists THEN docs[s].stock ELSE 0) + Sum(S \ {s})
  IN Sum(SkuIds)

(* ------------------------------ barcodes ------------------------------- *)
\* a barcode is a string: the sequence of its character codes ("0" is 48)
START_BARCODE == 10000001

\* attempts of createSku's generation loop
MaxBarcodeAttempts == 5

\* String(value) of a non-negative integer
RECURSIVE padBarcode(_)
padBarcode(value) ==
  IF value < 10 THEN <<48 + value>>
  ELSE Append(padBarcode(value \div 10), 48 + (value % 10))

IsDigits(b) == b # <<>> /\ \A i \in 1..Len(b) : b[i] \in 48..57

RECURSIVE DigitsValue(_)
DigitsValue(b) ==
  IF b = <<>> THEN 0
  ELSE 10 * DigitsValue(SubSeq(b, 1, Len(b) - 1)) + (b[Len(b)] - 48)

\* Number(barcode), null when it is not a finite number
parseBarcodeNumber(b) == IF IsDigits(b) THEN Num(DigitsValue(b)) ELSE NullValue

\* the order of strings that sort({ barcode: -1 }) uses
RECURSIVE StringLess(_, _)
StringLess(a, b) ==
  IF b = <<>> THEN FALSE
  ELSE IF a = <<>> THEN TRUE
  ELSE IF a[1] # b[1] THEN a[1] < b[1]
  ELSE StringLess(Tail(a), Tail(b))

\* Sku.findOne(...).sort({ barcode: -1 }): the SKU whose barcode string is last
findLastBarcodeValue ==
  LET held == {s \in SkuIds : sku[s].exists}
  IN IF held = {} THEN NullValue
     ELSE parseBarcodeNumber(
            barcode[CHOOSE s \in held : \A o \in held : ~StringLess(barcode[s], barcode[o])])

generateBarcode ==
  IF findLastBarcodeValue = NullValue \/ findLastBarcodeValue.val = 0
    THEN padBarcode(START_BARCODE)
  ELSE padBarcode(findLastBarcodeValue.val + 1)

(* ------------------------------ settings ------------------------------- *)
NoSettings == [exists |-> FALSE, defaultReorderThreshold |-> 0]

\* Settings.create({ _id: 'global', defaultReorderThreshold: 0, ... }) unless
\* the document is there
initSettingsIfMissing(doc) ==
  IF doc.exists THEN doc ELSE [exists |-> TRUE, defaultReorderThreshold |-> 0]

\* the settings collection after getSettingsDocument()
getSettingsDocument(doc) == initSettingsIfMissing(doc)

\* Number(settings?.defaultReorderThreshold ?? 0)
getDefaultReorderThreshold(doc) == getSettingsDocument(doc).defaultReorderThreshold

(* ------------------------------ initial states ------------------------- *)
\* amounts of money count thousandths; the price the SKUs of the stock
\* scenarios are created with
ListPrice == 1000

\* the catalogue after createSku has run for the SKUs in existing, in the order
\* "A", "B", with generated barcodes and the default reorder threshold
InitCatalog(existing) ==
  /\ settings = [exists |-> TRUE, defaultReorderThreshold |-> 0]
  /\ price = [s \in SkuIds |-> IF s \in existing THEN ListPrice ELSE 0]
  /\ barcode = [s \in SkuIds |->
                  IF s \notin existing THEN <<>>
                  ELSE IF s = "A" THEN padBarcode(START_BARCODE)
                  ELSE padBarcode(START_BARCODE + 1)]
  /\ reorderThreshold = [s \in SkuIds |-> IF s \in existing THEN Num(0) ELSE NullValue]

InitialLedger(a, b) ==
  (IF a > 0 THEN <<HistoryEntry("A", a, 0, a, "Initial stock", 0)>> ELSE <<>>)
  \o (IF b > 0 THEN <<HistoryEntry("B", b, 0, b, "Initial stock", 0)>> ELSE <<>>)

\* the store after createSku("A", a) has completed; "B" does not exist yet
InitStore(a) ==
  /\ sku = [s \in SkuIds |-> IF s = "A" THEN [exists |-> TRUE, stock |-> a] ELSE NoDoc]
  /\ initialStock = [s \in SkuIds |-> IF s = "A" THEN a ELSE 0]
  /\ ledger = InitialLedger(a, 0)
  /\ skuCount = 1
  /\ product = TRUE
  /\ totalStock = SumStock(sku)
  /\ InitCatalog({"A"})

\* the store after createSku("A", a) and createSku("B", b) have completed
InitStoreBoth(a, b) ==
  /\ sku = [s \in SkuIds |-> IF s = "A" THEN [exists |-> TRUE, stock |-> a]
                              ELSE IF s = "B" THEN [exists |-> TRUE, stock |-> b]
                              ELSE NoDoc]
  /\ initialStock = [s \in SkuIds |-> IF s = "A" THEN a ELSE IF s = "B" THEN b ELSE 0]
  /\ ledger = InitialLedger(a, b)
  /\ skuCount = 2
  /\ product = TRUE
  /\ totalStock = SumStock(sku)
  /\ InitCatalog({"A", "B"})

\* the store before any SKU has been created: no Settings document either
InitStoreEmpty ==
  /\ sku = [s \in SkuIds |-> NoDoc]
  /\ initialStock = [s \in SkuIds |-> 0]
  /\ ledger = <<>>
  /\ skuCount = 0
  /\ product = TRUE
  /\ totalStock = SumStock(sku)
  /\ settings = NoSettings
  /\ price = [s \in SkuIds |-> 0]
  /\ barcode = [s \in SkuIds |-> <<>>]
  /\ reorderThreshold = [s \in SkuIds |-> NullValue]

\* the store before any product has been created
InitNoProduct ==
  /\ sku = [s \in SkuIds |-> NoDoc]
  /\ initialStock = [s \in SkuIds |-> 0]
  /\ ledger = <<>>
  /\ skuCount = 0
  /\ product = FALSE
  /\ totalStock = 0
  /\ settings \in {NoSettings, [exists |-> TRUE, defaultReorderThreshold |-> 0]}
  /\ price = [s \in SkuIds |-> 0]
  /\ barcode = [s \in SkuIds |-> <<>>]
  /\ reorderThreshold = [s \in SkuIds |-> NullValue]

\* the barcodes of "A" and "B" after createSku("A") and then createSku("B"):
\* both generated; "A" generated and "9" supplied for "B"; "9" supplied for "A"
\* and "10" generated for "B"; "A1" supplied for "A" and "B" generated
BarcodeMixes ==
  {<<padBarcode(START_BARCODE), padBarcode(START_BARCODE + 1)>>,
   <<padBarcode(START_BARCODE), <<57>>>>,
   <<<<57>>, padBarcode(10)>>,
   <<<<65, 49>>, padBarcode(START_BARCODE)>>}

\* the store after createSku("A", a) with reorder threshold th, createSku("B", 1)
\* and updateSettings({ defaultReorderThreshold: d })
InitStoreMixed(a, mix, th, d) ==
  /\ sku = [s \in SkuIds |-> IF s = "A" THEN [exists |-> TRUE, stock |-> a]
                              ELSE IF s = "B" THEN [exists |-> TRUE, stock |-> 1]
                              ELSE NoDoc]
  /\ initialStock = [s \in SkuIds |-> IF s = "A" THEN a ELSE IF s = "B" THEN 1 ELSE 0]
  /\ ledger = InitialLedger(a, 1)
  /\ skuCount = 2
  /\ product = TRUE
  /\ totalStock = SumStock(sku)
  /\ settings = [exists |-> TRUE, defaultReorderThreshold |-> d]
  /\ price = [s \in SkuIds |-> IF s \in {"A", "B"} THEN ListPrice ELSE 0]
  /\ barcode = [s \in SkuIds |-> IF s = "A" THEN mix[1] ELSE IF s = "B" THEN mix[2] ELSE <<>>]
  /\ reorderThreshold = [s \in SkuIds |-> IF s = "A" THEN Num(th)
                                           ELSE IF s = "B" THEN Num(0) ELSE NullValue]

\* the store after createSku for "A" (stock MaxInitStock, price pa) and "B"
\* (stock 1, price pb)
InitStorePriced(pa, pb) ==
  /\ sku = [s \in SkuIds |-> IF s = "A" THEN [exists |-> TRUE, stock |-> MaxInitStock]
                              ELSE IF s = "B" THEN [exists |-> TRUE, stock |-> 1]
                              ELSE NoDoc]
  /\ initialStock = [s \in SkuIds |-> IF s = "A" THEN MaxInitStock
                                       ELSE IF s = "B" THEN 1 ELSE 0]
  /\ ledger = InitialLedger(MaxInitStock, 1)
  /\ skuCount = 2
  /\ product = TRUE
  /\ totalStock = SumStock(sku)
  /\ settings = [exists |-> TRUE, defaultReorderThreshold |-> 0]
  /\ price = [s \in SkuIds |-> IF s = "A" THEN pa ELSE IF s = "B" THEN pb ELSE 0]
  /\ barcode = [s \in SkuIds |-> IF s = "A" THEN padBarcode(START_BARCODE)
                                  ELSE IF s = "B" THEN padBarcode(START_BARCODE + 1)
                                  ELSE <<>>]
  /\ reorderThreshold = [s \in SkuIds |-> IF s \in {"A", "B"} THEN Num(0) ELSE NullValue]

InitCalls ==
  /\ orders = <<>>
  /\ call = [p \in Procs |-> IdleCall]
  /\ txn = [p \in Procs |-> NoTxn]
  /\ ncalls = 0
  /\ nfaults = 0

Init == (\E a \in 0..MaxInitStock : InitStore(a)) /\ InitCalls

InitCatalogue ==
  /\ \/ InitStoreEmpty
     \/ \E a \in 1..MaxInitStock, mix \in BarcodeMixes,
           td \in {<<0, 0>>, <<1, 0>>, <<1, MaxInitStock>>} :
          InitStoreMixed(a, mix, td[1], td[2])
  /\ InitCalls

\* prices in thousandths: 0.004, 1.005
PriceInputs == {4, 1005}

\* the prices 10.00 and 5.50 in thousandths
PriceTen == 10000

PriceFiveFifty == 5500

InitTotals ==
  /\ \/ \E pa \in PriceInputs : InitStorePriced(pa, ListPrice)
     \/ InitStorePriced(PriceTen, PriceFiveFifty)
  /\ InitCalls

InitBoth == (\E a \in 1..MaxInitStock : InitStoreBoth(a, 1)) /\ InitCalls

(* --------------------------- transactions ------------------------------ *)
StartTransaction == [NoTxn EXCEPT !.state = "starting"]

WithSnapshot(t) ==
  IF t.hasSnap THEN t
  ELSE [t EXCEPT !.state = "active", !.hasSnap = TRUE,
                 !.snap = [s \in SkuIds |-> [exists |-> sku[s].exists, stock |-> sku[s].stock]]]

\* a read that does not see the writes the transaction has made itself
FindByIdCommitted(t, s) ==
  IF s \notin SkuIds THEN NoDoc ELSE t.snap[s]

FindById(t, s) ==
  IF s \notin SkuIds THEN NoDoc
  ELSE IF t.wsku[s].written THEN [exists |-> TRUE, stock |-> t.wsku[s].stock]
  ELSE t.snap[s]

HasWriteConflict(p, t, s) ==
  \/ s \in t.stale
  \/ \E q \in Procs \ {p} : txn[q].state = "active" /\ txn[q].wsku[s].written

Written(t) == {s \in SkuIds : t.wsku[s].written}

CommittedSku(t) ==
  [s \in SkuIds |-> IF t.wsku[s].written
                    THEN [exists |-> TRUE, stock |-> t.wsku[s].stock]
                    ELSE sku[s]]

MarkStale(p, t) ==
  [q \in Procs |->
     IF q = p THEN NoTxn
     ELSE IF txn[q].state = "active"
          THEN [txn[q] EXCEPT !.stale = @ \cup Written(t)]
          ELSE txn[q]]

Faults(points) == IF nfaults < MaxFaults THEN {"none"} \cup points ELSE {"none"}

CountFault(fault) == nfaults' = IF fault = "none" THEN nfaults ELSE nfaults + 1

(* --------------------- Stock Adjustment Engine ------------------------- *)
\* a save that the store does not check against concurrent writers
SkuSaveNoConflict(p, t, s, newStock, fault) ==
  IF newStock < 0
    THEN [err |-> Err("ValidationError", "stock is less than minimum allowed value"), txn |-> t]
  ELSE IF fault = "save" THEN [err |-> StorageErr, txn |-> t]
  ELSE [err |-> NoErr,
        txn |-> [t EXCEPT !.wsku[s] = [written |-> TRUE, stock |-> newStock]]]

\* sku.save({ session }): schema validation (stock min 0), then the update.
SkuSave(p, t, s, newStock, fault) ==
  IF newStock < 0
    THEN [err |-> Err("ValidationError", "stock is less than minimum allowed value"), txn |-> t]
  ELSE IF fault = "save" THEN [err |-> StorageErr, txn |-> t]
  ELSE IF HasWriteConflict(p, t, s) THEN [err |-> WriteConflictErr, txn |-> t]
  ELSE [err |-> NoErr,
        txn |-> [t EXCEPT !.wsku[s] = [written |-> TRUE, stock |-> newStock]]]

\* a ledger write that is reported as done and writes nothing
HistoryCreateDropped(t, entry, fault) ==
  IF fault = "history" THEN [err |-> StorageErr, txn |-> t]
  ELSE [err |-> NoErr, txn |-> t]

\* StockHistory.create([...], { session })
HistoryCreate(t, entry, fault) ==
  IF fault = "history" THEN [err |-> StorageErr, txn |-> t]
  ELSE [err |-> NoErr, txn |-> [t EXCEPT !.wledger = Append(@, entry)]]

NoHistory == HistoryEntry(NoSku, 0, 0, 0, "", 0)

Failed(e, t) == [err |-> e, txn |-> t, history |-> NoHistory]

\* adjustStockInternal without its "newStock < 0" rejection
adjustStockInternalNoCheck(p, t0, skuId, delta, reason, referenceOrderId, fault) ==
  LET t == WithSnapshot(t0)
      doc == FindById(t, skuId)
      previousStock == doc.stock
      newStock == previousStock + delta.val
  IN IF ~doc.exists THEN Failed(Err("SKU_NOT_FOUND", "SKU not found"), t)
     ELSE IF delta.kind = "nan" THEN Failed(Err("INVALID_INPUT", "Invalid stock delta"), t)
     ELSE LET saved == SkuSave(p, t, skuId, newStock, fault)
              entry == HistoryEntry(skuId, delta.val, previousStock, newStock,
                                    reason, referenceOrderId)
              created == HistoryCreate(saved.txn, entry, fault)
          IN IF saved.err # NoErr THEN Failed(saved.err, t)
             ELSE IF created.err # NoErr THEN Failed(created.err, saved.txn)
             ELSE [err |-> NoErr, txn |-> created.txn, history |-> entry]

adjustStockInternal(p, t0, skuId, delta, reason, referenceOrderId, fault) ==
  LET t == WithSnapshot(t0)
      doc == FindById(t, skuId)
      previousStock == doc.stock
      newStock == previousStock + delta.val
  IN IF ~doc.exists THEN Failed(Err("SKU_NOT_FOUND", "SKU not found"), t)
     ELSE IF delta.kind = "nan" THEN Failed(Err("INVALID_INPUT", "Invalid stock delta"), t)
     ELSE IF newStock < 0
       THEN Failed(Err("INSUFFICIENT_STOCK", "Stock cannot be negative"), t)
     ELSE LET saved == SkuSave(p, t, skuId, newStock, fault)
              entry == HistoryEntry(skuId, delta.val, previousStock, newStock,
                                    reason, referenceOrderId)
              created == HistoryCreate(saved.txn, entry, fault)
          IN IF saved.err # NoErr THEN Failed(saved.err, t)
             ELSE IF created.err # NoErr THEN Failed(created.err, saved.txn)
             ELSE [err |-> NoErr, txn |-> created.txn, history |-> entry]

\* whether adjustStockInternal gets as far as a sku.save that succeeds, after
\* which the post-save hook of the SKU schema runs
PostSaveRuns(p, t0, skuId, delta, fault) ==
  LET t == WithSnapshot(t0)
      doc == FindById(t, skuId)
  IN /\ doc.exists
     /\ delta.kind = "num"
     /\ doc.stock + delta.val >= 0
     /\ SkuSave(p, t, skuId, doc.stock + delta.val, fault).err = NoErr

\* skuSchema.post('save') and post('findOneAndUpdate'): Sku.find and
\* Product.findByIdAndUpdate(productId, { totalStock }), both without a session,
\* so the sum is taken over the committed documents docs and is written at once
skuPostSave(runs, docs) ==
  IF runs /\ product THEN SumStock(docs) ELSE totalStock

\* the argument checks at the head of adjustStock
adjustStockCheck(delta, reason) ==
  IF delta.kind = "null" \/ (delta.kind = "num" /\ delta.val = 0)
    THEN Err("INVALID_INPUT", "Stock delta must be a non-zero number")
  ELSE IF reason = "" THEN Err("INVALID_INPUT", "Stock adjustment reason is required")
  ELSE NoErr

\* adjustStock called with an external session: no commit, no abort
adjustStockInSession(p, t, skuId, delta, reason, referenceOrderId, fault) ==
  IF adjustStockCheck(delta, reason) # NoErr
    THEN Failed(adjustStockCheck(delta, reason), t)
  ELSE adjustStockInternal(p, t, skuId, ToNumber(delta), reason, referenceOrderId, fault)

(* ------------------------------ calls ---------------------------------- *)
CanCall(p) == call[p].pc \in {"idle", "done", "failed"} /\ ncalls < MaxCalls

NewCall(op, pc) == [IdleCall EXCEPT !.op = op, !.pc = pc, !.id = ncalls + 1]

\* a call that has returned keeps its outcome only (and, when it failed, where
\* it failed); its locals are gone
Fail(c, e) ==
  [IdleCall EXCEPT !.op = c.op, !.pc = "failed", !.id = c.id, !.err = e,
                   !.stage = c.pc, !.idx = c.idx]

Done(c) ==
  [IdleCall EXCEPT !.op = c.op, !.pc = "done", !.id = c.id, !.results = c.results,
                   !.totalItems = c.totalItems]

\* a commit after which the ledger holds the entries of this transaction only
CommitReplacing(p) ==
  /\ sku' = CommittedSku(txn[p])
  /\ ledger' = IF txn[p].wledger = <<>> THEN ledger ELSE txn[p].wledger
  /\ orders' = orders \o txn[p].worders
  /\ txn' = MarkStale(p, txn[p])

\* session.commitTransaction(): the pending writes become visible together
Commit(p) ==
  /\ sku' = CommittedSku(txn[p])
  /\ ledger' = ledger \o txn[p].wledger
  /\ orders' = orders \o txn[p].worders
  /\ txn' = MarkStale(p, txn[p])

DeltaInputs == {Num(0 - 1), Num(0), Num(1), NullValue, NaNValue}

ReasonInputs == {"", "fix"}

(* ------------------------------ createSku ------------------------------ *)
\* an error thrown by createSku: the call fails, or, when createProduct made
\* the call, its catch block takes over
SkuFail(c, e) ==
  IF c.op = "createProduct" THEN [c EXCEPT !.pc = "cleanup", !.err = e, !.stage = c.pc]
  ELSE Fail(c, e)

\* Sku.exists({ barcode })
BarcodeExists(b) == \E o \in SkuIds : sku[o].exists /\ barcode[o] = b

\* lines 119-156: the checks of the arguments, the default reorder threshold
\* (which creates the Settings document when it is missing) and the check of a
\* supplied barcode
createSku(p, s, stockValue, priceValue, barcodeProvided, thresholdValue) ==
  /\ CanCall(p)
  /\ ncalls' = ncalls + 1
  /\ LET c == NewCall("createSku", "start")
         threshold == IF thresholdValue = NullValue
                        THEN Num(getDefaultReorderThreshold(settings))
                        ELSE thresholdValue
     IN IF priceValue < 0
          THEN /\ call' = [call EXCEPT ![p] =
                    Fail(c, Err("INVALID_INPUT", "Price must be a non-negative number"))]
               /\ UNCHANGED settings
        ELSE IF stockValue < 0
          THEN /\ call' = [call EXCEPT ![p] =
                    Fail(c, Err("INVALID_INPUT", "Stock must be a non-negative number"))]
               /\ UNCHANGED settings
        ELSE /\ settings' = getSettingsDocument(settings)
             /\ IF threshold.kind = "nan" \/ threshold.val < 0
                  THEN call' = [call EXCEPT ![p] =
                         Fail(c, Err("INVALID_INPUT",
                                     "reorderThreshold must be a non-negative number"))]
                ELSE IF ~product
                  THEN call' = [call EXCEPT ![p] =
                         Fail(c, Err("PRODUCT_NOT_FOUND", "Parent product not found"))]
                ELSE IF barcodeProvided # <<>> /\ BarcodeExists(barcodeProvided)
                  THEN call' = [call EXCEPT ![p] =
                         Fail(c, Err("DUPLICATE_BARCODE", "Barcode already exists"))]
                ELSE call' = [call EXCEPT ![p] =
                       [c EXCEPT !.pc = IF barcodeProvided = <<>> THEN "barcode" ELSE "create",
                                 !.skuId = s, !.stock = stockValue, !.price = priceValue,
                                 !.barcode = barcodeProvided, !.threshold = threshold]]
  /\ UNCHANGED <<sku, initialStock, ledger, orders, skuCount, product, totalStock, txn, nfaults,
                 price, barcode, reorderThreshold>>

\* one attempt of the generation loop (lines 162-170), and lines 172-174 after
\* the last one
createSkuBarcode(p) ==
  /\ call[p].op \in {"createSku", "createProduct"} /\ call[p].pc = "barcode"
  /\ IF ~BarcodeExists(generateBarcode)
       THEN call' = [call EXCEPT ![p].barcode = generateBarcode, ![p].pc = "create"]
     ELSE IF call[p].attempts + 1 < MaxBarcodeAttempts
       THEN call' = [call EXCEPT ![p].attempts = @ + 1]
     ELSE call' = [call EXCEPT ![p] =
            SkuFail(@, Err("SERVER_ERROR", "Failed to generate unique barcode"))]
  /\ UNCHANGED <<sku, initialStock, ledger, orders, skuCount, product, totalStock, txn, ncalls,
             nfaults,
             catalog>>

\* Sku.create(skuPayload) against the unique indexes on sku and barcode
createSkuCreate(p) ==
  /\ call[p].op \in {"createSku", "createProduct"} /\ call[p].pc = "create"
  /\ IF sku[call[p].skuId].exists \/ BarcodeExists(call[p].barcode)
       THEN /\ call' = [call EXCEPT ![p] = SkuFail(@, Err("E11000", "duplicate key"))]
            /\ UNCHANGED <<sku, initialStock, price, barcode, reorderThreshold, totalStock>>
     ELSE /\ sku' = [sku EXCEPT ![call[p].skuId] = [exists |-> TRUE, stock |-> call[p].stock]]
          /\ initialStock' = [initialStock EXCEPT ![call[p].skuId] = call[p].stock]
          /\ price' = [price EXCEPT ![call[p].skuId] = call[p].price]
          /\ barcode' = [barcode EXCEPT ![call[p].skuId] = call[p].barcode]
          /\ reorderThreshold' = [reorderThreshold EXCEPT ![call[p].skuId] = call[p].threshold]
          /\ totalStock' = skuPostSave(TRUE, sku')
          /\ call' = [call EXCEPT ![p].pc = "skuCount"]
  /\ UNCHANGED <<ledger, orders, skuCount, product, txn, ncalls, nfaults, settings>>

\* Product.findByIdAndUpdate(productId, { $inc: { skuCount: 1 } })
createSkuCount(p, fault) ==
  /\ call[p].op \in {"createSku", "createProduct"} /\ call[p].pc = "skuCount"
  /\ CountFault(fault)
  /\ IF fault = "count"
       THEN /\ call' = [call EXCEPT ![p] = SkuFail(@, StorageErr)]
            /\ UNCHANGED skuCount
     ELSE /\ skuCount' = IF product THEN skuCount + 1 ELSE skuCount
          /\ call' = [call EXCEPT ![p].pc = "history"]
  /\ UNCHANGED <<sku, initialStock, ledger, orders, txn, ncalls, catalog, product, totalStock>>

\* StockHistory.create({ ..., reason: 'Initial stock' }) when stockValue > 0
createSkuHistory(p, fault) ==
  /\ call[p].op \in {"createSku", "createProduct"} /\ call[p].pc = "history"
  /\ CountFault(fault)
  /\ IF fault = "history" /\ call[p].stock > 0
       THEN /\ call' = [call EXCEPT ![p] = SkuFail(@, StorageErr)]
            /\ UNCHANGED ledger
     ELSE /\ ledger' = IF call[p].stock > 0
                         THEN Append(ledger, HistoryEntry(call[p].skuId, call[p].stock, 0,
                                                          call[p].stock, "Initial stock", 0))
                         ELSE ledger
          /\ call' = [call EXCEPT ![p] = Done(@)]
  /\ UNCHANGED <<sku, initialStock, orders, skuCount, product, totalStock, txn, ncalls, catalog>>

(* ----------------------------- createProduct --------------------------- *)
\* lines 54-82 and 107-113: the checks, Product.create with skuCount 0, and,
\* when the request has no initialStock, the result
createProduct(p, s, hasInitialStock, initialStockValue, basePrice, minStock) ==
  /\ CanCall(p)
  /\ ~product
  /\ ncalls' = ncalls + 1
  /\ LET c == NewCall("createProduct", "start")
     IN IF minStock < 0
          THEN /\ call' = [call EXCEPT ![p] =
                    Fail(c, Err("INVALID_INPUT", "minStock must be a non-negative number"))]
               /\ UNCHANGED <<product, totalStock, skuCount>>
        ELSE IF hasInitialStock /\ initialStockValue < 0
          THEN /\ call' = [call EXCEPT ![p] =
                    Fail(c, Err("INVALID_INPUT", "initialStock must be a non-negative number"))]
               /\ UNCHANGED <<product, totalStock, skuCount>>
        ELSE /\ product' = TRUE
             /\ skuCount' = 0
             /\ call' = [call EXCEPT ![p] =
                  IF hasInitialStock
                    THEN [c EXCEPT !.pc = "sku", !.skuId = s, !.stock = initialStockValue,
                                   !.price = basePrice, !.threshold = Num(minStock)]
                    ELSE Done(c)]
  /\ UNCHANGED <<sku, initialStock, ledger, orders, txn, nfaults,
                 settings, price, barcode, reorderThreshold, totalStock>>

\* skuService.createSku(skuData) up to the barcode loop (part_002:119-156),
\* with price = basePrice, reorderThreshold = minStock and no barcode
createProductSku(p) ==
  /\ call[p].op = "createProduct" /\ call[p].pc = "sku"
  /\ IF call[p].price < 0
       THEN /\ call' = [call EXCEPT ![p] =
                 SkuFail(@, Err("INVALID_INPUT", "Price must be a non-negative number"))]
            /\ UNCHANGED settings
     ELSE /\ settings' = getSettingsDocument(settings)
          /\ IF ~product
               THEN call' = [call EXCEPT ![p] =
                      SkuFail(@, Err("PRODUCT_NOT_FOUND", "Parent product not found"))]
             ELSE call' = [call EXCEPT ![p].pc = "barcode"]
  /\ UNCHANGED <<sku, initialStock, ledger, orders, skuCount, product, totalStock, txn, ncalls,
             nfaults,
                 price, barcode, reorderThreshold>>

\* the catch block (lines 98-104): Product.findByIdAndDelete, whose own
\* failure is logged and dropped, then the error of createSku is thrown
createProductCleanup(p, fault) ==
  /\ call[p].op = "createProduct" /\ call[p].pc = "cleanup"
  /\ CountFault(fault)
  /\ product' = IF fault = "delete" THEN product ELSE FALSE
  /\ call' = [call EXCEPT ![p] = Fail([@ EXCEPT !.pc = call[p].stage], call[p].err)]
  /\ UNCHANGED <<sku, initialStock, ledger, orders, skuCount, txn, ncalls, catalog,
                 totalStock>>

(* ------------------------------ updateSku ------------------------------ *)
\* the payload the controller builds; a field that is absent is null, and
\* hasBarcode tells whether data.barcode !== undefined
SkuUpdate(priceValue, hasBarcode, barcodeValue, thresholdValue) ==
  [price |-> priceValue, hasBarcode |-> hasBarcode, barcode |-> barcodeValue,
   reorderThreshold |-> thresholdValue]

\* the first check of updateSku that fails
updateSkuCheck(id, data) ==
  IF data.price # NullValue /\ (data.price.kind = "nan" \/ data.price.val < 0)
    THEN Err("INVALID_INPUT", "Price must be a non-negative number")
  ELSE IF data.hasBarcode /\ data.barcode = <<>>
    THEN Err("INVALID_INPUT", "Barcode cannot be empty")
  ELSE IF data.hasBarcode
          /\ \E o \in SkuIds \ {id} : sku[o].exists /\ barcode[o] = data.barcode
    THEN Err("DUPLICATE_BARCODE", "Barcode already exists")
  ELSE IF data.reorderThreshold # NullValue
          /\ (data.reorderThreshold.kind = "nan" \/ data.reorderThreshold.val < 0)
    THEN Err("INVALID_INPUT", "reorderThreshold must be a non-negative number")
  ELSE IF id = NoSku \/ ~sku[id].exists THEN Err("SKU_NOT_FOUND", "SKU not found")
  ELSE NoErr

\* an update that also carries a stock value, taken from the new price
updateSkuWithStock(p, id, data) ==
  /\ CanCall(p)
  /\ ncalls' = ncalls + 1
  /\ IF updateSkuCheck(id, data) # NoErr
       THEN /\ call' = [call EXCEPT ![p] =
                 Fail(NewCall("updateSku", "start"), updateSkuCheck(id, data))]
            /\ UNCHANGED <<sku, price, barcode, reorderThreshold>>
     ELSE /\ price' = IF data.price = NullValue THEN price
                      ELSE [price EXCEPT ![id] = data.price.val]
          /\ sku' = IF data.price = NullValue THEN sku
                    ELSE [sku EXCEPT ![id].stock = data.price.val]
          /\ barcode' = IF data.hasBarcode THEN [barcode EXCEPT ![id] = data.barcode]
                        ELSE barcode
          /\ reorderThreshold' = IF data.reorderThreshold = NullValue THEN reorderThreshold
                                 ELSE [reorderThreshold EXCEPT ![id] = data.reorderThreshold]
          /\ call' = [call EXCEPT ![p] = Done(NewCall("updateSku", "start"))]
  /\ UNCHANGED <<initialStock, ledger, orders, skuCount, product, totalStock, txn, nfaults, settings>>

\* updateSku and the controller's check of its result: the update carries
\* price, barcode and reorderThreshold, never stock
updateSku(p, id, data) ==
  /\ CanCall(p)
  /\ ncalls' = ncalls + 1
  /\ IF updateSkuCheck(id, data) # NoErr
       THEN /\ call' = [call EXCEPT ![p] =
                 Fail(NewCall("updateSku", "start"), updateSkuCheck(id, data))]
            /\ UNCHANGED <<price, barcode, reorderThreshold, totalStock>>
     ELSE /\ price' = IF data.price = NullValue THEN price
                      ELSE [price EXCEPT ![id] = data.price.val]
          /\ barcode' = IF data.hasBarcode THEN [barcode EXCEPT ![id] = data.barcode]
                        ELSE barcode
          /\ reorderThreshold' = IF data.reorderThreshold = NullValue THEN reorderThreshold
                                 ELSE [reorderThreshold EXCEPT ![id] = data.reorderThreshold]
          /\ totalStock' = skuPostSave(TRUE, sku)
          /\ call' = [call EXCEPT ![p] = Done(NewCall("updateSku", "start"))]
  /\ UNCHANGED <<sku, initialStock, ledger, orders, skuCount, product, txn, nfaults,
                 settings>>

(* ---------------------------- updateSettings --------------------------- *)
\* updateSettings({ defaultReorderThreshold: value }): sanitizePayload, the
\* upsert, and getSettingsDocument for the result
updateSettings(p, value) ==
  /\ CanCall(p)
  /\ ncalls' = ncalls + 1
  /\ IF value # NullValue /\ (value.kind = "nan" \/ value.val < 0)
       THEN /\ call' = [call EXCEPT ![p] =
                 Fail(NewCall("updateSettings", "start"),
                      Err("Error", "defaultReorderThreshold must be a non-negative number"))]
            /\ UNCHANGED settings
     ELSE /\ settings' = IF value = NullValue THEN getSettingsDocument(settings)
                         ELSE [exists |-> TRUE, defaultReorderThreshold |-> value.val]
          /\ call' = [call EXCEPT ![p] = Done(NewCall("updateSettings", "start"))]
  /\ UNCHANGED <<sku, initialStock, ledger, orders, skuCount, product, totalStock, txn, nfaults,
                 price, barcode, reorderThreshold>>

(* ----------------------------- findLowStock ---------------------------- *)
\* the $match stage for one SKU document
lowStockMatch(s, defaultThreshold) ==
  \/ reorderThreshold[s] # NullValue /\ sku[s].stock <= reorderThreshold[s].val
  \/ sku[s].stock <= defaultThreshold

\* the $project stage
lowStockRow(s, defaultThreshold) ==
  [skuId |-> s, stock |-> sku[s].stock,
   reorderThreshold |-> IF reorderThreshold[s] = NullValue THEN defaultThreshold
                        ELSE reorderThreshold[s].val]

\* the order of the SKU codes
SkuRank(s) == IF s = "A" THEN 1 ELSE IF s = "B" THEN 2 ELSE 3

\* { $sort: { stock: 1, sku: 1 } }
RowBefore(a, b) ==
  sku[a].stock < sku[b].stock \/ (sku[a].stock = sku[b].stock /\ SkuRank(a) < SkuRank(b))

RECURSIVE SortRows(_, _)
SortRows(S, defaultThreshold) ==
  IF S = {} THEN <<>>
  ELSE LET first == CHOOSE a \in S : \A b \in S \ {a} : RowBefore(a, b)
       IN <<lowStockRow(first, defaultThreshold)>> \o SortRows(S \ {first}, defaultThreshold)

\* line 459: the default threshold, read through getSettingsDocument
findLowStock(p) ==
  /\ CanCall(p)
  /\ ncalls' = ncalls + 1
  /\ settings' = getSettingsDocument(settings)
  /\ call' = [call EXCEPT ![p] =
       [NewCall("findLowStock", "aggregate") EXCEPT
          !.threshold = Num(getDefaultReorderThreshold(settings))]]
  /\ UNCHANGED <<sku, initialStock, ledger, orders, skuCount, product, totalStock, txn, nfaults,
                 price, barcode, reorderThreshold>>

\* lines 461-499: Sku.aggregate
findLowStockAggregate(p) ==
  /\ call[p].op = "findLowStock" /\ call[p].pc = "aggregate"
  /\ call' = [call EXCEPT ![p] =
       Done([@ EXCEPT !.results =
               SortRows({s \in SkuIds : sku[s].exists /\ lowStockMatch(s, call[p].threshold.val)},
                        call[p].threshold.val)])]
  /\ UNCHANGED <<sku, initialStock, ledger, orders, skuCount, product, totalStock, txn, ncalls,
             nfaults,
             catalog>>

(* ------------------------------ adjustStock ---------------------------- *)
adjustStock(p, skuId, delta, reason) ==
  /\ CanCall(p)
  /\ ncalls' = ncalls + 1
  /\ LET c == [NewCall("adjustStock", "body") EXCEPT
                 !.skuId = skuId, !.delta = delta, !.reason = reason]
         e == adjustStockCheck(delta, reason)
     IN IF e # NoErr
          THEN call' = [call EXCEPT ![p] = Fail([c EXCEPT !.pc = "start"], e)] /\ UNCHANGED txn
          ELSE /\ call' = [call EXCEPT ![p] = c]
               /\ txn' = [txn EXCEPT ![p] = StartTransaction]
  /\ UNCHANGED <<sku, initialStock, ledger, orders, skuCount, product, totalStock, nfaults, catalog>>

\* the callback run without a transaction: what it wrote before it failed stays
adjustStockBodyUnwrapped(p, fault) ==
  /\ call[p].op = "adjustStock" /\ call[p].pc = "body"
  /\ CountFault(fault)
  /\ LET r == adjustStockInternal(p, txn[p], call[p].skuId, ToNumber(call[p].delta),
                                  call[p].reason, 0, fault)
     IN IF r.err = NoErr
          THEN /\ txn' = [txn EXCEPT ![p] = r.txn]
               /\ call' = [call EXCEPT ![p].pc = "commit",
                                        ![p].results = <<r.history>>]
               /\ UNCHANGED <<sku, ledger>>
        ELSE IF r.err = WriteConflictErr /\ call[p].retries < MaxRetries
          THEN /\ txn' = [txn EXCEPT ![p] = StartTransaction]
               /\ call' = [call EXCEPT ![p].retries = @ + 1]
               /\ UNCHANGED <<sku, ledger>>
        ELSE /\ txn' = [txn EXCEPT ![p] = NoTxn]
             /\ call' = [call EXCEPT ![p] = Fail(@, r.err)]
             /\ sku' = CommittedSku(r.txn)
             /\ ledger' = ledger \o r.txn.wledger
  /\ UNCHANGED <<initialStock, orders, skuCount, product, totalStock, ncalls, catalog>>

\* the withTransaction callback: one adjustStockInternal
adjustStockBody(p, fault) ==
  /\ call[p].op = "adjustStock" /\ call[p].pc = "body"
  /\ CountFault(fault)
  /\ LET r == adjustStockInternal(p, txn[p], call[p].skuId, ToNumber(call[p].delta),
                                  call[p].reason, 0, fault)
     IN IF r.err = NoErr
          THEN /\ txn' = [txn EXCEPT ![p] = r.txn]
               /\ call' = [call EXCEPT ![p].pc = "commit",
                                        ![p].results = <<r.history>>]
        ELSE IF r.err = WriteConflictErr /\ call[p].retries < MaxRetries
          THEN \* TransientTransactionError: withTransaction runs the callback again
               /\ txn' = [txn EXCEPT ![p] = StartTransaction]
               /\ call' = [call EXCEPT ![p].retries = @ + 1]
        ELSE /\ txn' = [txn EXCEPT ![p] = NoTxn]
             /\ call' = [call EXCEPT ![p] = Fail(@, r.err)]
  /\ totalStock' = skuPostSave(PostSaveRuns(p, txn[p], call[p].skuId, ToNumber(call[p].delta), fault),
                               sku)
  /\ UNCHANGED <<sku, initialStock, ledger, orders, skuCount, product, ncalls, catalog>>

adjustStockCommit(p, fault) ==
  /\ call[p].op = "adjustStock" /\ call[p].pc = "commit"
  /\ CountFault(fault)
  /\ IF fault = "commit"
       THEN /\ txn' = [txn EXCEPT ![p] = NoTxn]
            /\ call' = [call EXCEPT ![p] = Fail(@, StorageErr)]
            /\ UNCHANGED <<sku, ledger, orders>>
       ELSE /\ Commit(p)
            /\ call' = [call EXCEPT ![p] = Done(@)]
  /\ UNCHANGED <<initialStock, skuCount, product, totalStock, ncalls, catalog>>

(* ---------------------------- bulkUpdateStock -------------------------- *)
Adjustment(skuId, delta, reason) == [skuId |-> skuId, delta |-> delta, reason |-> reason]

bulkUpdateStock(p, adjustments) ==
  /\ CanCall(p)
  /\ ncalls' = ncalls + 1
  /\ IF Len(adjustments) = 0
       THEN /\ call' = [call EXCEPT ![p] = Done(NewCall("bulkUpdateStock", "done"))]
            /\ UNCHANGED txn
       ELSE /\ call' = [call EXCEPT ![p] =
                 [NewCall("bulkUpdateStock", "body") EXCEPT !.list = adjustments, !.idx = 1]]
            /\ txn' = [txn EXCEPT ![p] = StartTransaction]
  /\ UNCHANGED <<sku, initialStock, ledger, orders, skuCount, product, totalStock, nfaults, catalog>>

bulkPayloadCheck(a) ==
  IF a.skuId = NoSku \/ a.delta.kind = "null" \/ a.reason = ""
    THEN Err("INVALID_INPUT", "Invalid stock adjustment payload")
    ELSE NoErr

\* a loop that skips an adjustment that fails and goes on with the next one
bulkStepSkipFailed(p, fault) ==
  /\ call[p].op = "bulkUpdateStock" /\ call[p].pc = "body"
  /\ CountFault(fault)
  /\ LET a == call[p].list[call[p].idx]
         e == bulkPayloadCheck(a)
         r == IF e # NoErr THEN Failed(e, txn[p])
              ELSE adjustStockInternal(p, txn[p], a.skuId, ToNumber(a.delta),
                                       a.reason, 0, fault)
         next == IF call[p].idx = Len(call[p].list) THEN "commit" ELSE "body"
     IN IF r.err = NoErr
          THEN /\ txn' = [txn EXCEPT ![p] = r.txn]
               /\ call' = [call EXCEPT ![p].results = Append(@, r.history),
                                        ![p].idx = @ + 1, ![p].pc = next]
        ELSE IF r.err = WriteConflictErr /\ call[p].retries < MaxRetries
          THEN /\ txn' = [txn EXCEPT ![p] = StartTransaction]
               /\ call' = [call EXCEPT ![p].idx = 1, ![p].retries = @ + 1]
        ELSE /\ txn' = [txn EXCEPT ![p] = WithSnapshot(txn[p])]
             /\ call' = [call EXCEPT ![p].idx = @ + 1, ![p].pc = next]
  /\ UNCHANGED <<sku, initialStock, ledger, orders, skuCount, product, totalStock, ncalls, catalog>>

\* one iteration of the loop inside the withTransaction callback
bulkStep(p, fault) ==
  /\ call[p].op = "bulkUpdateStock" /\ call[p].pc = "body"
  /\ CountFault(fault)
  /\ LET a == call[p].list[call[p].idx]
         e == bulkPayloadCheck(a)
         r == IF e # NoErr THEN Failed(e, txn[p])
              ELSE adjustStockInternal(p, txn[p], a.skuId, ToNumber(a.delta),
                                       a.reason, 0, fault)
     IN IF r.err = NoErr
          THEN /\ txn' = [txn EXCEPT ![p] = r.txn]
               /\ call' = [call EXCEPT
                    ![p].results = Append(@, r.history),
                    ![p].idx = @ + 1,
                    ![p].pc = IF call[p].idx = Len(call[p].list) THEN "commit" ELSE "body"]
        ELSE IF r.err = WriteConflictErr /\ call[p].retries < MaxRetries
          THEN \* withTransaction aborts and runs the callback again; results is kept
               /\ txn' = [txn EXCEPT ![p] = StartTransaction]
               /\ call' = [call EXCEPT ![p].idx = 1, ![p].retries = @ + 1]
        ELSE /\ txn' = [txn EXCEPT ![p] = NoTxn]
             /\ call' = [call EXCEPT ![p] = Fail(@, r.err)]
  /\ LET a == call[p].list[call[p].idx]
     IN totalStock' = skuPostSave(/\ bulkPayloadCheck(a) = NoErr
                                  /\ PostSaveRuns(p, txn[p], a.skuId, ToNumber(a.delta), fault),
                                  sku)
  /\ UNCHANGED <<sku, initialStock, ledger, orders, skuCount, product, ncalls, catalog>>

bulkCommit(p, fault) ==
  /\ call[p].op = "bulkUpdateStock" /\ call[p].pc = "commit"
  /\ CountFault(fault)
  /\ IF fault = "commit"
       THEN /\ txn' = [txn EXCEPT ![p] = NoTxn]
            /\ call' = [call EXCEPT ![p] = Fail(@, StorageErr)]
            /\ UNCHANGED <<sku, ledger, orders>>
       ELSE /\ Commit(p)
            /\ call' = [call EXCEPT ![p] = Done(@)]
  /\ UNCHANGED <<initialStock, skuCount, product, totalStock, ncalls, catalog>>

(* ------------------------------ createOrder ---------------------------- *)
Item(skuId, quantity) == [skuId |-> skuId, quantity |-> quantity]

\* a deduction of one unit whatever the quantity
orderDeltaOne(item) == Num(0 - 1)

\* the delta createOrder passes to adjustStock: -item.quantity
orderDelta(item) == Num(0 - item.quantity)

OrderReason(orderNumber) == IF orderNumber = "N1" THEN "order:N1" ELSE "order:N2"

RECURSIVE SumQuantity(_)
SumQuantity(items) ==
  IF items = <<>> THEN 0 ELSE Head(items).quantity + SumQuantity(Tail(items))

\* session.abortTransaction() as the driver implements it: it refuses to run
\* once commitTransaction has been called, and swallows server errors otherwise
abortTransaction(t) ==
  IF t.state = "none" THEN Err("MongoTransactionError", "No transaction started")
  ELSE IF t.state = "committed"
    THEN Err("MongoTransactionError",
             "Cannot call abortTransaction after calling commitTransaction")
  ELSE NoErr

\* catch (error) { await session.abortTransaction(); throw error; }
orderCatch(c, t, e) ==
  IF abortTransaction(t) # NoErr THEN Fail(c, abortTransaction(t)) ELSE Fail(c, e)

\* Number(x.toFixed(2)) of an amount in thousandths
toFixed2(x) == ((x + 5) \div 10) * 10

\* an order whose tax input is never refused
orderTaxUnchecked(subTotal, tax, taxRate) ==
  IF tax # NullValue /\ tax.kind = "num" /\ tax.val >= 0
    THEN [err |-> NoErr, tax |-> tax.val]
  ELSE IF tax = NullValue /\ taxRate # NullValue /\ taxRate.kind = "num" /\ taxRate.val >= 0
    THEN [err |-> NoErr, tax |-> ((subTotal * taxRate.val + 5000) \div 10000) * 10]
  ELSE [err |-> NoErr, tax |-> 0]

\* a tax that prefers the rate to the explicit amount
orderTaxRateFirst(subTotal, tax, taxRate) ==
  IF taxRate # NullValue
    THEN IF taxRate.kind = "nan" \/ taxRate.val < 0
           THEN [err |-> Err("INVALID_INPUT", "taxRate must be a non-negative number"),
                 tax |-> 0]
         ELSE [err |-> NoErr, tax |-> ((subTotal * taxRate.val + 5000) \div 10000) * 10]
  ELSE IF tax # NullValue
    THEN IF tax.kind = "nan" \/ tax.val < 0
           THEN [err |-> Err("INVALID_INPUT", "tax must be a non-negative number"), tax |-> 0]
         ELSE [err |-> NoErr, tax |-> tax.val]
  ELSE [err |-> NoErr, tax |-> 0]

\* lines 237-250: the tax of the order, from data.tax or else data.taxRate (a
\* rate in thousandths), or the error of the input
orderTax(subTotal, tax, taxRate) ==
  IF tax # NullValue
    THEN IF tax.kind = "nan" \/ tax.val < 0
           THEN [err |-> Err("INVALID_INPUT", "tax must be a non-negative number"), tax |-> 0]
         ELSE [err |-> NoErr, tax |-> tax.val]
  ELSE IF taxRate # NullValue
    THEN IF taxRate.kind = "nan" \/ taxRate.val < 0
           THEN [err |-> Err("INVALID_INPUT", "taxRate must be a non-negative number"),
                 tax |-> 0]
         ELSE [err |-> NoErr, tax |-> ((subTotal * taxRate.val + 5000) \div 10000) * 10]
  ELSE [err |-> NoErr, tax |-> 0]

createOrder(p, items, orderNumber, tax, taxRate) ==
  /\ CanCall(p)
  /\ ncalls' = ncalls + 1
  /\ IF Len(items) = 0
       THEN /\ call' = [call EXCEPT ![p] =
                 Fail(NewCall("createOrder", "start"),
                      Err("INVALID_INPUT", "Order items are required"))]
            /\ UNCHANGED txn
       ELSE /\ call' = [call EXCEPT ![p] =
                 [NewCall("createOrder", "validate") EXCEPT
                    !.list = items, !.idx = 1, !.orderNumber = orderNumber,
                    !.tax = tax, !.taxRate = taxRate]]
            /\ txn' = [txn EXCEPT ![p] = StartTransaction]
  /\ UNCHANGED <<sku, initialStock, ledger, orders, skuCount, product, totalStock, nfaults, catalog>>

\* one iteration of the validation loop (lines 203-235)
orderValidateItem(t0, item) ==
  IF item.skuId = NoSku
    THEN [err |-> Err("INVALID_INPUT", "Each order item must include skuId"), txn |-> t0]
  ELSE IF item.quantity <= 0
    THEN [err |-> Err("INVALID_INPUT", "Quantity must be a positive integer"), txn |-> t0]
  ELSE LET t == WithSnapshot(t0)
           doc == FindById(t, item.skuId)
       IN IF ~doc.exists THEN [err |-> Err("SKU_NOT_FOUND", "SKU not found"), txn |-> t]
          ELSE IF doc.stock < item.quantity
            THEN [err |-> ErrSku("INSUFFICIENT_STOCK", "Insufficient stock for SKU",
                                 item.skuId), txn |-> t]
          ELSE [err |-> NoErr, txn |-> t]

\* line 223: quantity * sku.price
lineTotal(item) == item.quantity * price[item.skuId]

\* lines 226-234
preparedItem(item) ==
  [skuId |-> item.skuId, quantity |-> item.quantity, unitPrice |-> price[item.skuId],
   lineTotal |-> lineTotal(item)]

\* one iteration of the loop of lines 203-235; the last one goes on, with no
\* await in between, to the tax and the totals of lines 237-257
orderValidate(p) ==
  /\ call[p].op = "createOrder" /\ call[p].pc = "validate"
  /\ LET item == call[p].list[call[p].idx]
         r == orderValidateItem(txn[p], item)
         last == call[p].idx = Len(call[p].list)
         subTotal == call[p].subTotal + lineTotal(item)
         t == orderTax(subTotal, call[p].tax, call[p].taxRate)
     IN IF r.err # NoErr
          THEN /\ txn' = [txn EXCEPT ![p] = NoTxn]
               /\ call' = [call EXCEPT ![p] = orderCatch(@, r.txn, r.err)]
        ELSE IF last /\ t.err # NoErr
          THEN /\ txn' = [txn EXCEPT ![p] = NoTxn]
               /\ call' = [call EXCEPT ![p] = orderCatch([@ EXCEPT !.pc = "tax"], r.txn, t.err)]
        ELSE /\ txn' = [txn EXCEPT ![p] = r.txn]
             /\ call' = [call EXCEPT
                  ![p].prepared = Append(@, preparedItem(item)),
                  ![p].subTotal = subTotal,
                  ![p].taxAmount = IF last THEN t.tax ELSE @,
                  ![p].idx = IF last THEN 1 ELSE @ + 1,
                  ![p].pc = IF last THEN "deduct" ELSE "validate"]
  /\ UNCHANGED <<sku, initialStock, ledger, orders, skuCount, product, totalStock, ncalls,
             nfaults, catalog>>

\* the deduction loop calling adjustStock without the session: every deduction
\* runs in a transaction of its own and is committed at once
orderDeductNoSession(p, fault) ==
  /\ call[p].op = "createOrder" /\ call[p].pc = "deduct"
  /\ CountFault(fault)
  /\ LET item == call[p].prepared[call[p].idx]
         r == adjustStockInSession(p, StartTransaction, item.skuId, orderDelta(item),
                                   OrderReason(call[p].orderNumber), call[p].id, fault)
     IN IF r.err = NoErr
          THEN /\ sku' = CommittedSku(r.txn)
               /\ ledger' = ledger \o r.txn.wledger
               /\ txn' = [q \in Procs |->
                            IF txn[q].state = "active"
                              THEN [txn[q] EXCEPT !.stale = @ \cup Written(r.txn)]
                              ELSE txn[q]]
               /\ call' = [call EXCEPT
                    ![p].idx = @ + 1,
                    ![p].pc = IF call[p].idx = Len(call[p].prepared) THEN "save" ELSE "deduct"]
          ELSE /\ txn' = [txn EXCEPT ![p] = NoTxn]
               /\ call' = [call EXCEPT ![p] = orderCatch(@, txn[p], r.err)]
               /\ UNCHANGED <<sku, ledger>>
  /\ UNCHANGED <<initialStock, orders, skuCount, product, totalStock, ncalls, catalog>>

\* one iteration of the deduction loop (lines 259-268)
orderDeduct(p, fault) ==
  /\ call[p].op = "createOrder" /\ call[p].pc = "deduct"
  /\ CountFault(fault)
  /\ LET item == call[p].prepared[call[p].idx]
         r == adjustStockInSession(p, txn[p], item.skuId, orderDelta(item),
                                   OrderReason(call[p].orderNumber), call[p].id, fault)
     IN IF r.err = NoErr
          THEN /\ txn' = [txn EXCEPT ![p] = r.txn]
               /\ call' = [call EXCEPT
                    ![p].idx = @ + 1,
                    ![p].pc = IF call[p].idx = Len(call[p].prepared) THEN "save" ELSE "deduct"]
          ELSE /\ txn' = [txn EXCEPT ![p] = NoTxn]
               /\ call' = [call EXCEPT ![p] = orderCatch(@, r.txn, r.err)]
  /\ LET item == call[p].prepared[call[p].idx]
     IN totalStock' = skuPostSave(/\ adjustStockCheck(orderDelta(item),
                                                      OrderReason(call[p].orderNumber)) = NoErr
                                  /\ PostSaveRuns(p, txn[p], item.skuId,
                                                  ToNumber(orderDelta(item)), fault),
                                  sku)
  /\ UNCHANGED <<sku, initialStock, ledger, orders, skuCount, product, ncalls, catalog>>

OrderDoc(c) ==
  [id |-> c.id, orderNumber |-> c.orderNumber, items |-> c.prepared,
   subTotal |-> toFixed2(c.subTotal), tax |-> toFixed2(c.taxAmount),
   total |-> toFixed2(c.subTotal + c.taxAmount)]

\* orderDoc.save({ session }) against the unique index on orderNumber
\* a save into an orders collection without the unique index on orderNumber
orderDocSaveNoIndex(p, t, doc, fault) ==
  IF fault = "save" THEN [err |-> StorageErr, txn |-> t]
  ELSE [err |-> NoErr, txn |-> [t EXCEPT !.worders = Append(@, doc)]]

orderDocSave(p, t, doc, fault) ==
  IF fault = "save" THEN [err |-> StorageErr, txn |-> t]
  ELSE IF \E i \in 1..Len(orders) : orders[i].orderNumber = doc.orderNumber
    THEN [err |-> Err("E11000", "duplicate key"), txn |-> t]
  ELSE IF \E q \in Procs \ {p} : /\ txn[q].state = "active"
                                 /\ \E i \in 1..Len(txn[q].worders) :
                                      txn[q].worders[i].orderNumber = doc.orderNumber
    THEN [err |-> WriteConflictErr, txn |-> t]
  ELSE [err |-> NoErr, txn |-> [t EXCEPT !.worders = Append(@, doc)]]

orderSave(p, fault) ==
  /\ call[p].op = "createOrder" /\ call[p].pc = "save"
  /\ CountFault(fault)
  /\ LET r == orderDocSave(p, txn[p], OrderDoc(call[p]), fault)
     IN IF r.err = NoErr
          THEN /\ txn' = [txn EXCEPT ![p] = r.txn]
               /\ call' = [call EXCEPT ![p].pc = "commit"]
          ELSE /\ txn' = [txn EXCEPT ![p] = NoTxn]
               /\ call' = [call EXCEPT ![p] = orderCatch(@, r.txn, r.err)]
  /\ UNCHANGED <<sku, initialStock, ledger, orders, skuCount, product, totalStock, ncalls, catalog>>

orderCommit(p, fault) ==
  /\ call[p].op = "createOrder" /\ call[p].pc = "commit"
  /\ CountFault(fault)
  /\ IF fault = "commit"
       THEN \* the driver marks the transaction committed even when the commit fails
            /\ txn' = [txn EXCEPT ![p] = NoTxn]
            /\ call' = [call EXCEPT ![p] =
                 orderCatch(@, [txn[p] EXCEPT !.state = "committed"], StorageErr)]
            /\ UNCHANGED <<sku, ledger, orders>>
       ELSE /\ Commit(p)
            /\ call' = [call EXCEPT ![p] =
                 Done([@ EXCEPT !.totalItems = SumQuantity(call[p].prepared)])]
  /\ UNCHANGED <<initialStock, skuCount, product, totalStock, ncalls, catalog>>

(* ------------------------------ inputs --------------------------------- *)
StockInputs == (0 - 1)..MaxInitStock

Good(s, d) == Adjustment(s, Num(d), "fix")

\* one adjustment per way of being malformed
BadAdjustments ==
  {Adjustment(NoSku, Num(1), "fix"), Adjustment("A", NullValue, "fix"),
   Adjustment("A", Num(1), ""), Adjustment("A", Num(0), "fix"),
   Adjustment("A", NaNValue, "fix")}

GoodAdjustments == {Good(s, d) : s \in StockedSkus, d \in {0 - 1, 1}}

BulkInputs ==
  {<<>>} \cup {<<a>> : a \in GoodAdjustments \cup BadAdjustments}
         \cup {<<a, b>> : a \in GoodAdjustments, b \in GoodAdjustments \cup BadAdjustments}

CoreBulkInputs ==
  {<<>>, <<Good("A", 0 - 1)>>, <<Good("A", 1), Good("A", 0 - 1)>>,
   <<Good("A", 0 - 1), Good("A", 0 - 1)>>, <<Good("A", 1), Good("B", 0 - 1)>>}

GoodItems == {Item(s, q) : s \in StockedSkus, q \in 1..MaxQty}

BadItems == {Item(NoSku, 1), Item("A", 0)}

OrderInputs ==
  {<<>>} \cup {<<a>> : a \in GoodItems \cup BadItems}
         \cup {<<a, b>> : a \in GoodItems, b \in GoodItems \cup BadItems}

CoreOrderInputs ==
  {<<>>, <<Item("A", 1)>>, <<Item("A", MaxQty)>>, <<Item("A", 1), Item("A", 1)>>,
   <<Item("A", 1), Item("B", 1)>>}

\* barcodes a caller supplies: none, "9", "A1"
\* stock, supplied barcode (none, "9", "A1") and reorder threshold of a new SKU
SkuInputs ==
  {<<0, <<>>, NullValue>>, <<1, <<>>, NullValue>>, <<1, <<57>>, Num(1)>>,
   <<1, <<65, 49>>, NullValue>>, <<0, <<>>, Num(0 - 1)>>}

SettingsInputs == {NullValue, Num(0 - 1), Num(0), Num(MaxInitStock)}

SkuUpdates ==
  {SkuUpdate(NullValue, FALSE, <<>>, NullValue),
   SkuUpdate(Num(0 - 1), FALSE, <<>>, NullValue),
   SkuUpdate(Num(0), FALSE, <<>>, Num(1)),
   SkuUpdate(NullValue, TRUE, <<>>, NullValue),
   SkuUpdate(NullValue, TRUE, <<57>>, NullValue),
   SkuUpdate(NullValue, FALSE, <<>>, Num(0 - 1)),
   SkuUpdate(NullValue, FALSE, <<>>, Num(0))}

CoreSkuUpdates ==
  {SkuUpdate(Num(0), FALSE, <<>>, Num(1)), SkuUpdate(NullValue, TRUE, <<57>>, NullValue)}

(* --------------------------- specifications ---------------------------- *)
\* every operation, any interleaving
Next ==
  \E p \in Procs :
    \/ \E s \in StockedSkus, n \in StockInputs :
         createSku(p, s, n, ListPrice, <<>>, NullValue)
    \/ createSkuBarcode(p)
    \/ createSkuCreate(p)
    \/ \E f \in Faults({"count"}) : createSkuCount(p, f)
    \/ \E f \in Faults({"history"}) : createSkuHistory(p, f)
    \/ \E data \in CoreSkuUpdates : updateSku(p, "A", data)
    \/ updateSettings(p, Num(MaxInitStock))
    \/ findLowStock(p)
    \/ findLowStockAggregate(p)
    \/ \E s \in StockedSkus, d \in DeltaInputs, r \in ReasonInputs : adjustStock(p, s, d, r)
    \/ \E f \in Faults({"save", "history"}) : adjustStockBody(p, f)
    \/ \E f \in Faults({"commit"}) : adjustStockCommit(p, f)
    \/ \E a \in CoreBulkInputs : bulkUpdateStock(p, a)
    \/ \E f \in Faults({"save", "history"}) : bulkStep(p, f)
    \/ \E f \in Faults({"commit"}) : bulkCommit(p, f)
    \/ \E items \in CoreOrderInputs, n \in OrderNumbers : createOrder(p, items, n, NullValue, NullValue)
    \/ orderValidate(p)
    \/ \E f \in Faults({"save", "history"}) : orderDeduct(p, f)
    \/ \E f \in Faults({"save"}) : orderSave(p, f)
    \/ \E f \in Faults({"commit"}) : orderCommit(p, f)

Spec == Init /\ [][Next]_vars

\* the catalogue operations, over every mix of barcodes and thresholds
NextCatalogue ==
  \E p \in Procs :
    \/ \E s \in {"A", "C"}, data \in SkuInputs :
         createSku(p, s, data[1], ListPrice, data[2], data[3])
    \/ createSkuBarcode(p)
    \/ createSkuCreate(p)
    \/ \E f \in Faults({"count"}) : createSkuCount(p, f)
    \/ \E f \in Faults({"history"}) : createSkuHistory(p, f)
    \/ \E id \in {"A", "C"}, data \in SkuUpdates : updateSku(p, id, data)
    \/ \E v \in SettingsInputs : updateSettings(p, v)
    \/ findLowStock(p)
    \/ findLowStockAggregate(p)

SpecCatalogue == InitCatalogue /\ [][NextCatalogue]_vars

\* data.tax and data.taxRate: absent, amounts 0.004 and 1, a rate of 18%, and
\* values that are refused
\* the tax rate 0.1 in thousandths
RateTenth == 100

TaxInputs ==
  {<<NullValue, NullValue>>, <<Num(4), NullValue>>, <<Num(0 - 1), NullValue>>,
   <<NaNValue, NullValue>>, <<NullValue, Num(180)>>, <<NullValue, Num(0 - 1)>>,
   <<Num(1000), Num(180)>>, <<NullValue, Num(RateTenth)>>}

TotalsOrderInputs ==
  {<<Item("A", 1)>>, <<Item("A", MaxQty)>>, <<Item("A", 1), Item("B", 1)>>,
   <<Item("A", 1), Item(NoSku, 1)>>, <<Item("A", 1), Item("A", 0)>>,
   <<Item("B", 1), Item("B", MaxQty)>>, <<Item("A", 2), Item("B", 1)>>}

\* createOrder over priced SKUs, with every kind of tax input
NextTotals ==
  \E p \in Procs :
    \/ \E items \in TotalsOrderInputs, t \in TaxInputs :
         createOrder(p, items, IF p = 1 THEN "N1" ELSE "N2", t[1], t[2])
    \/ orderValidate(p)
    \/ \E f \in Faults({"save", "history"}) : orderDeduct(p, f)
    \/ \E f \in Faults({"save"}) : orderSave(p, f)
    \/ \E f \in Faults({"commit"}) : orderCommit(p, f)

SpecTotals == InitTotals /\ [][NextTotals]_vars

\* createProduct with its default SKU, next to createSku and adjustStock calls
\* for the SKUs of the product
InitProduct == InitNoProduct /\ InitCalls

ProductInputs == {<<TRUE, 0, ListPrice>>, <<TRUE, 1, ListPrice>>, <<TRUE, 1, 0 - 1>>,
                  <<TRUE, 0 - 1, ListPrice>>, <<FALSE, 0, ListPrice>>}

NextProduct ==
  \E p \in Procs :
    \/ \E s \in StockedSkus, in \in ProductInputs, m \in {0 - 1, 0} :
         createProduct(p, s, in[1], in[2], in[3], m)
    \/ createProductSku(p)
    \/ \E f \in Faults({"delete"}) : createProductCleanup(p, f)
    \/ \E n \in StockInputs : createSku(p, "A", n, ListPrice, <<>>, NullValue)
    \/ createSkuBarcode(p)
    \/ createSkuCreate(p)
    \/ \E f \in Faults({"count"}) : createSkuCount(p, f)
    \/ \E f \in Faults({"history"}) : createSkuHistory(p, f)
    \/ \E d \in {Num(1), Num(0 - 1)} : adjustStock(p, "A", d, "fix")
    \/ \E f \in Faults({"save", "history"}) : adjustStockBody(p, f)
    \/ \E f \in Faults({"commit"}) : adjustStockCommit(p, f)

SpecProduct == InitProduct /\ [][NextProduct]_vars

\* createSku and the adjustments with stock values and deltas that need not be
\* whole: here every number n of the model stands for n / StockScale (the code
\* of these operations only adds numbers and compares them with 0, so a run
\* with all numbers scaled is a run of the same code)
InitFractional ==
  /\ InitStoreEmpty \/ \E a \in 0..1 : InitStore(a * StockScale)
  /\ InitCalls

FractionalDeltas == {Num(0 - StockScale), Num(0 - 1), Num(1), Num(StockScale)}

NextFractional ==
  \E p \in Procs :
    \/ \E s \in StockedSkus, n \in 0..StockScale :
         createSku(p, s, n, ListPrice, <<>>, NullValue)
    \/ createSkuBarcode(p)
    \/ createSkuCreate(p)
    \/ \E f \in Faults({"count"}) : createSkuCount(p, f)
    \/ \E f \in Faults({"history"}) : createSkuHistory(p, f)
    \/ \E d \in FractionalDeltas : adjustStock(p, "A", d, "fix")
    \/ \E f \in Faults({"save", "history"}) : adjustStockBody(p, f)
    \/ \E f \in Faults({"commit"}) : adjustStockCommit(p, f)
    \/ \E d \in FractionalDeltas : bulkUpdateStock(p, <<Adjustment("A", d, "fix")>>)
    \/ \E f \in Faults({"save", "history"}) : bulkStep(p, f)
    \/ \E f \in Faults({"commit"}) : bulkCommit(p, f)

SpecFractional == InitFractional /\ [][NextFractional]_vars

\* concurrent createOrder calls over two existing SKUs
NextOrders ==
  \E p \in Procs :
    \/ \E items \in OrderInputs, n \in OrderNumbers : createOrder(p, items, n, NullValue, NullValue)
    \/ orderValidate(p)
    \/ \E f \in Faults({"save", "history"}) : orderDeduct(p, f)
    \/ \E f \in Faults({"save"}) : orderSave(p, f)
    \/ \E f \in Faults({"commit"}) : orderCommit(p, f)

SpecOrders == InitBoth /\ [][NextOrders]_vars

\* concurrent adjustStock and bulkUpdateStock calls over two existing SKUs
NextAdjust ==
  \E p \in Procs :
    \/ \E s \in StockedSkus, d \in DeltaInputs, r \in ReasonInputs : adjustStock(p, s, d, r)
    \/ \E f \in Faults({"save", "history"}) : adjustStockBody(p, f)
    \/ \E f \in Faults({"commit"}) : adjustStockCommit(p, f)
    \/ \E a \in BulkInputs : bulkUpdateStock(p, a)
    \/ \E f \in Faults({"save", "history"}) : bulkStep(p, f)
    \/ \E f \in Faults({"commit"}) : bulkCommit(p, f)

SpecAdjust == InitBoth /\ [][NextAdjust]_vars

\* two createOrder calls, one per process, each for one unit of SKU "A" with stock 1
InitLastUnit == InitStoreBoth(1, 1) /\ InitCalls

NextLastUnit ==
  \E p \in Procs :
    \/ call[p].pc = "idle" /\ \E n \in OrderNumbers : createOrder(p, <<Item("A", 1)>>, n, NullValue, NullValue)
    \/ orderValidate(p)
    \/ \E f \in Faults({"save", "history"}) : orderDeduct(p, f)
    \/ \E f \in Faults({"save"}) : orderSave(p, f)
    \/ \E f \in Faults({"commit"}) : orderCommit(p, f)

SpecLastUnit == InitLastUnit /\ [][NextLastUnit]_vars

(* ------------------------------ properties ----------------------------- *)
InFlight(p) == call[p].pc \notin {"idle", "done", "failed"}

Stepped(p) == call'[p] # call[p]

NoRequest == [ok |-> FALSE, skuId |-> NoSku, delta |-> Num(0)]

\* the adjustment that the next step of call p asks the engine for
PendingRequest(p) ==
  LET c == call[p]
  IN IF c.op = "adjustStock" /\ c.pc = "body"
       THEN [ok |-> TRUE, skuId |-> c.skuId, delta |-> ToNumber(c.delta)]
     ELSE IF c.op = "bulkUpdateStock" /\ c.pc = "body"
       THEN [ok |-> bulkPayloadCheck(c.list[c.idx]) = NoErr,
             skuId |-> c.list[c.idx].skuId, delta |-> ToNumber(c.list[c.idx].delta)]
     ELSE IF c.op = "createOrder" /\ c.pc = "deduct"
       THEN [ok |-> TRUE, skuId |-> c.prepared[c.idx].skuId,
             delta |-> Num(0 - c.prepared[c.idx].quantity)]
     ELSE IF c.op = "createOrder" /\ c.pc = "validate"
       THEN [ok |-> c.list[c.idx].skuId # NoSku /\ c.list[c.idx].quantity > 0,
             skuId |-> c.list[c.idx].skuId, delta |-> Num(0 - c.list[c.idx].quantity)]
     ELSE NoRequest

\* the stock that call p reads for a SKU inside its transaction
StockRead(p, s) == FindById(WithSnapshot(txn[p]), s)

WouldBeNegative(p) ==
  LET r == PendingRequest(p)
  IN /\ r.ok
     /\ r.delta.kind = "num"
     /\ StockRead(p, r.skuId).exists
     /\ StockRead(p, r.skuId).stock + r.delta.val < 0

\* C1: every SKU's stock is >= 0 in every committed state, and an adjustment
\* (of adjustStock, bulkUpdateStock or createOrder) whose result would be
\* negative is rejected with INSUFFICIENT_STOCK, stock and ledger unchanged.
C1_StockNeverNegative ==
  /\ [](\A s \in SkuIds : sku[s].stock >= 0)
  /\ [][\A p \in Procs :
          (WouldBeNegative(p) /\ Stepped(p))
            => /\ call'[p].pc = "failed"
               /\ call'[p].err.code = "INSUFFICIENT_STOCK"
               /\ sku' = sku
               /\ ledger' = ledger]_vars

\* a deduction has emptied a SKU and a later adjustment was refused
C1_Witness ==
  \E p \in Procs, s \in SkuIds :
    /\ call[p].pc = "failed"
    /\ call[p].err.code = "INSUFFICIENT_STOCK"
    /\ call[p].stage \in {"body", "deduct"}
    /\ sku[s].exists /\ sku[s].stock = 0
    /\ \E i \in 1..Len(ledger) : ledger[i].skuId = s /\ ledger[i].change < 0

EntriesOf(id) == {i \in 1..Len(ledger) : ledger[i].referenceOrderId = id}

OrdersOf(id) == {i \in 1..Len(orders) : orders[i].id = id}

\* C2: a createOrder call that fails, at whatever step, has changed no SKU
\* stock and has left no ledger entry of its line items and no order document.
C2_FailedOrderLeavesNothing ==
  /\ [](\A p \in Procs :
          (call[p].op = "createOrder" /\ call[p].pc = "failed")
            => EntriesOf(call[p].id) = {} /\ OrdersOf(call[p].id) = {})
  /\ [][\A p \in Procs :
          (call[p].op = "createOrder" /\ InFlight(p) /\ Stepped(p) /\ call'[p].pc # "done")
            => <<sku, ledger, orders>>' = <<sku, ledger, orders>>]_vars

\* an order failed at its second deduction, after the first one had been applied
\* inside the transaction, and the store shows none of it
C2_Witness ==
  \E p \in Procs :
    /\ call[p].op = "createOrder" /\ call[p].pc = "failed"
    /\ call[p].stage = "deduct" /\ call[p].idx = 2
    /\ \A s \in SkuIds : sku[s].stock = initialStock[s]
    /\ orders = <<>>

RECURSIVE QuantityOf(_, _)
QuantityOf(items, s) ==
  IF items = <<>> THEN 0
  ELSE (IF Head(items).skuId = s THEN Head(items).quantity ELSE 0) + QuantityOf(Tail(items), s)

RECURSIVE OrderedQuantity(_, _)
OrderedQuantity(docs, s) ==
  IF docs = <<>> THEN 0
  ELSE QuantityOf(Head(docs).items, s) + OrderedQuantity(Tail(docs), s)

\* C3: the quantities of a SKU in the committed orders never exceed the stock
\* that was available, under every interleaving of concurrent createOrder calls.
C3_NoOversell ==
  \A s \in SkuIds : OrderedQuantity(orders, s) <= initialStock[s]

\* two orders raced for a SKU: one committed and took the whole stock, the other
\* was stopped by the store's conflict check
C3_Witness ==
  \E p \in Procs, q \in Procs, s \in SkuIds :
    /\ call[p].op = "createOrder" /\ call[p].pc = "done"
    /\ call[q].op = "createOrder" /\ call[q].pc = "failed"
    /\ call[q].err = WriteConflictErr
    /\ OrderedQuantity(orders, s) = initialStock[s]

\* C4: two concurrent createOrder calls for the last unit: exactly one succeeds,
\* the other fails with INSUFFICIENT_STOCK, the stock ends at 0 with one
\* deduction in the ledger (as the claim states it; storage failures aside).
C4_LastUnitAsClaimed ==
  ((\A p \in Procs : call[p].pc \in {"done", "failed"}) /\ nfaults = 0)
    => /\ \E p \in Procs :
            /\ call[p].pc = "done"
            /\ \A q \in Procs \ {p} :
                 call[q].pc = "failed" /\ call[q].err.code = "INSUFFICIENT_STOCK"
       /\ sku["A"].stock = 0
       /\ Cardinality({i \in 1..Len(ledger) :
                         ledger[i].skuId = "A" /\ ledger[i].change < 0}) = 1

\* what does hold of the two calls: one commits, the other fails with
\* INSUFFICIENT_STOCK or with the store's WriteConflict
C4_LastUnitOutcome ==
  ((\A p \in Procs : call[p].pc \in {"done", "failed"}) /\ nfaults = 0)
    => /\ \E p \in Procs :
            /\ call[p].pc = "done"
            /\ \A q \in Procs \ {p} :
                 /\ call[q].pc = "failed"
                 /\ call[q].err.code \in {"INSUFFICIENT_STOCK", "WriteConflict"}
       /\ sku["A"].stock = 0
       /\ Cardinality({i \in 1..Len(ledger) :
                         ledger[i].skuId = "A" /\ ledger[i].change < 0}) = 1

\* C5: every successful adjustment updates exactly one SKU row and appends
\* exactly one ledger entry, whose previousStock is the stock read, whose
\* newStock is the stock written, with newStock = previousStock + change.
C5_OneRowOneEntry ==
  [][\A p \in Procs :
       (txn'[p].state = "active"
          /\ (txn'[p].wsku # txn[p].wsku \/ txn'[p].wledger # txn[p].wledger))
         => \E s \in SkuIds :
              /\ Len(txn'[p].wledger) = Len(txn[p].wledger) + 1
              /\ SubSeq(txn'[p].wledger, 1, Len(txn[p].wledger)) = txn[p].wledger
              /\ txn'[p].wledger[Len(txn'[p].wledger)].skuId = s
              /\ txn'[p].wledger[Len(txn'[p].wledger)].previousStock = StockRead(p, s).stock
              /\ txn'[p].wsku[s] =
                   [written |-> TRUE,
                    stock |-> txn'[p].wledger[Len(txn'[p].wledger)].newStock]
              /\ txn'[p].wledger[Len(txn'[p].wledger)].newStock =
                   txn'[p].wledger[Len(txn'[p].wledger)].previousStock
                     + txn'[p].wledger[Len(txn'[p].wledger)].change
              /\ \A o \in SkuIds \ {s} : txn'[p].wsku[o] = txn[p].wsku[o]]_vars

\* an adjustStock call has committed: its one entry is in the ledger and the
\* SKU holds the stock the entry records
C5_Witness ==
  \E p \in Procs :
    /\ call[p].op = "adjustStock" /\ call[p].pc = "done"
    /\ Len(call[p].results) = 1
    /\ \E i \in 1..Len(ledger) : ledger[i] = call[p].results[1]
    /\ sku[call[p].results[1].skuId].stock = call[p].results[1].newStock
    /\ call[p].results[1].newStock # call[p].results[1].previousStock

RECURSIVE SumChange(_, _, _)
SumChange(entries, s, adjustmentsOnly) ==
  IF entries = <<>> THEN 0
  ELSE (IF Head(entries).skuId = s
             /\ (~adjustmentsOnly \/ Head(entries).reason # "Initial stock")
          THEN Head(entries).change ELSE 0)
       + SumChange(Tail(entries), s, adjustmentsOnly)

InitialEntries(s) ==
  {i \in 1..Len(ledger) : ledger[i].skuId = s /\ ledger[i].reason = "Initial stock"}

\* C6 as claimed: the changes of all ledger entries of a SKU sum to
\* currentStock - initialStock.
C6_SumAsClaimed ==
  \A s \in SkuIds :
    sku[s].exists => SumChange(ledger, s, FALSE) = sku[s].stock - initialStock[s]

\* C6 amended: the changes of the entries written by adjustments sum to
\* currentStock - initialStock; the "Initial stock" entry of createSku, when it
\* is there, carries the creation stock, so that all entries sum to currentStock.
C6_SumOfAdjustments ==
  \A s \in SkuIds :
    sku[s].exists =>
      /\ SumChange(ledger, s, TRUE) = sku[s].stock - initialStock[s]
      /\ Cardinality(InitialEntries(s)) <= 1
      /\ \A i \in InitialEntries(s) :
           /\ ledger[i].change = initialStock[s]
           /\ SumChange(ledger, s, FALSE) = sku[s].stock

\* a SKU created with stock > 0 whose stock has since been adjusted
C6_Witness ==
  \E s \in SkuIds :
    /\ sku[s].exists /\ initialStock[s] > 0
    /\ InitialEntries(s) # {}
    /\ sku[s].stock # initialStock[s]
    /\ \E i \in 1..Len(ledger) : ledger[i].skuId = s /\ ledger[i].reason = "fix"

OrderCommits(p) ==
  call[p].op = "createOrder" /\ call[p].pc = "commit" /\ call'[p].pc = "done"

OrderEntriesWritten(p) ==
  /\ EntriesOf(call[p].id) = {}
  /\ Len(ledger') = Len(ledger) + Len(call[p].list)
  /\ \A k \in 1..Len(call[p].list) :
       /\ ledger'[Len(ledger) + k].skuId = call[p].list[k].skuId
       /\ ledger'[Len(ledger) + k].change = 0 - call[p].list[k].quantity
       /\ ledger'[Len(ledger) + k].referenceOrderId = call[p].id
       /\ ledger'[Len(ledger) + k].reason = OrderReason(call[p].orderNumber)

\* C7 as claimed: after a successful createOrder the stock of every line
\* item's SKU has decreased by exactly that line item's quantity (and one ledger
\* entry per line item refers to the order, and totalItems is the sum).
C7_AsClaimed ==
  [][\A p \in Procs :
       OrderCommits(p) =>
         /\ \A k \in 1..Len(call[p].list) :
              sku'[call[p].list[k].skuId].stock
                = sku[call[p].list[k].skuId].stock - call[p].list[k].quantity
         /\ OrderEntriesWritten(p)]_vars

\* C7 amended: the stock of every SKU has decreased by the sum of the
\* quantities of the line items that name it; one ledger entry per line item
\* refers to the order with change = -quantity and reason order:<orderNumber>;
\* totalItems is the sum of the quantities.
C7_OrderEffects ==
  [][\A p \in Procs :
       OrderCommits(p) =>
         /\ \A s \in SkuIds :
              sku'[s].stock = sku[s].stock - QuantityOf(call[p].list, s)
         /\ OrderEntriesWritten(p)
         /\ call'[p].totalItems = QuantityOf(call[p].list, "A") + QuantityOf(call[p].list, "B")
         /\ Cardinality(OrdersOf(call[p].id)') = 1]_vars

\* an order with two line items for the same SKU has committed
C7_Witness ==
  \E p \in Procs :
    /\ call[p].op = "createOrder" /\ call[p].pc = "done"
    /\ call[p].totalItems >= 2
    /\ Cardinality(EntriesOf(call[p].id)) = 2
    /\ \A i \in EntriesOf(call[p].id), j \in EntriesOf(call[p].id) :
         ledger[i].skuId = ledger[j].skuId

\* the error of the adjustment that the next step of bulkUpdateStock call p
\* is about to apply, were it applied without a storage failure
ElementError(p) ==
  IF ~(call[p].op = "bulkUpdateStock" /\ call[p].pc = "body") THEN NoErr
  ELSE LET a == call[p].list[call[p].idx]
       IN IF a.skuId = NoSku \/ a.delta.kind = "null" \/ a.reason = ""
            THEN Err("INVALID_INPUT", "Invalid stock adjustment payload")
          ELSE IF ~StockRead(p, a.skuId).exists THEN Err("SKU_NOT_FOUND", "SKU not found")
          ELSE IF a.delta.kind = "nan" THEN Err("INVALID_INPUT", "Invalid stock delta")
          ELSE IF StockRead(p, a.skuId).stock + a.delta.val < 0
            THEN Err("INSUFFICIENT_STOCK", "Stock cannot be negative")
          ELSE NoErr

\* C8: bulkUpdateStock is all-or-nothing: a batch one of whose adjustments
\* fails validation, names a missing SKU or hits insufficient stock fails with
\* that adjustment's error, and nothing of the batch reaches the store.
C8_BulkAllOrNothing ==
  [][\A p \in Procs :
       (call[p].op = "bulkUpdateStock" /\ InFlight(p) /\ Stepped(p)) =>
         /\ call'[p].pc # "done" => <<sku, ledger, orders>>' = <<sku, ledger, orders>>
         /\ ElementError(p) # NoErr =>
              /\ call'[p].pc = "failed"
              /\ call'[p].err = ElementError(p)
              /\ <<sku, ledger, orders>>' = <<sku, ledger, orders>>]_vars

\* a batch failed at its second adjustment, after the first one had been applied
\* inside the transaction, and the store shows none of it
C8_Witness ==
  \E p \in Procs :
    /\ call[p].op = "bulkUpdateStock" /\ call[p].pc = "failed"
    /\ call[p].stage = "body" /\ call[p].idx = 2
    /\ call[p].err.code \in {"INVALID_INPUT", "INSUFFICIENT_STOCK"}
    /\ \A s \in SkuIds : sku[s].stock = initialStock[s]
    /\ \A i \in 1..Len(ledger) : ledger[i].reason = "Initial stock"

\* C9: no adjustment with a zero delta is ever written: no ledger entry has
\* change = 0.
C9_NoZeroChange ==
  \A i \in 1..Len(ledger) : ledger[i].change # 0

TriggeringCodes ==
  {"INVALID_INPUT", "SKU_NOT_FOUND", "INSUFFICIENT_STOCK", "ValidationError",
   "WriteConflict", "E11000", "StorageError"}

\* C10: the error of a failed createOrder is the triggering error, never one
\* raised while aborting the transaction; a failed commit surfaces as the
\* commit's own error.
C10_TriggeringErrorSurfaces ==
  \A p \in Procs :
    (call[p].op = "createOrder" /\ call[p].pc = "failed") =>
      /\ call[p].err.code \in TriggeringCodes
      /\ call[p].stage = "commit" => call[p].err = StorageErr

\* C11: every InsufficientStock failure of createOrder names the offending
\* SKU's code, whether the shortage is found by the validation loop or by a
\* deduction.
C11_InsufficientStockNamesSku ==
  \A p \in Procs :
    (call[p].op = "createOrder" /\ call[p].pc = "failed"
       /\ call[p].err.code = "INSUFFICIENT_STOCK")
      => call[p].err.sku \in SkuIds

EntriesFor(s) == {i \in 1..Len(ledger) : ledger[i].skuId = s}

LastEntry(s) == ledger[CHOOSE i \in EntriesFor(s) : \A j \in EntriesFor(s) : j <= i]

\* C16: a ledger entry and the stock it records are written together: whenever
\* no call is in progress (so also after a call has failed between two of its
\* steps), the stock of every SKU is the newStock of its latest ledger entry,
\* or 0 when it has none, and only existing SKUs have ledger entries.
C16_StockAndLedgerTogether ==
  (\A p \in Procs : ~InFlight(p)) =>
    \A s \in SkuIds :
      IF sku[s].exists
        THEN IF EntriesFor(s) = {} THEN sku[s].stock = 0
             ELSE LastEntry(s).newStock = sku[s].stock
      ELSE EntriesFor(s) = {}

\* the SKU's own reorderThreshold when it is set, else the global default
EffectiveThreshold(s, defaultThreshold) ==
  IF reorderThreshold[s] # NullValue THEN reorderThreshold[s].val ELSE defaultThreshold

\* C12: findLowStock returns exactly the SKUs with stock <= effectiveThreshold;
\* a SKU whose stock is above its own threshold is not returned.
C12_LowStockExactly ==
  [][\A p \in Procs :
       (call[p].op = "findLowStock" /\ call[p].pc = "aggregate" /\ call'[p].pc = "done")
         => {call'[p].results[i].skuId : i \in 1..Len(call'[p].results)}
              = {s \in SkuIds : /\ sku[s].exists
                               /\ sku[s].stock
                                    <= EffectiveThreshold(s, call[p].threshold.val)}]_vars

\* C13: findLowStock is read-only: none of its steps changes a persisted
\* collection (SKUs, ledger, orders, products, settings).
C13_FindLowStockReadOnly ==
  [][\A p \in Procs :
       (call'[p].op = "findLowStock" /\ Stepped(p))
         => /\ <<sku, ledger, orders, skuCount>>' = <<sku, ledger, orders, skuCount>>
            /\ <<settings, price, barcode, reorderThreshold>>'
                 = <<settings, price, barcode, reorderThreshold>>]_vars

\* C18: each barcode that createSku generates is a numeric string whose value
\* is greater than that of every (numeric) barcode a SKU in the store holds.
C18_GeneratedBarcodeGreater ==
  [][\A p \in Procs :
       (call[p].op = "createSku" /\ call[p].pc = "barcode" /\ call'[p].pc = "create")
         => /\ IsDigits(call'[p].barcode)
            /\ \A o \in SkuIds :
                 (sku[o].exists /\ IsDigits(barcode[o]))
                   => DigitsValue(barcode[o]) < DigitsValue(call'[p].barcode)]_vars

\* call p commits the transaction of an adjustment path
AdjustmentCommits(p) ==
  /\ call[p].op \in {"adjustStock", "bulkUpdateStock", "createOrder"}
  /\ call[p].pc = "commit" /\ call'[p].pc = "done"

\* C15: once a SKU exists its stock changes only as the effect of a successful
\* adjustment: a step that changes the stock of an existing SKU is the commit
\* of an adjustStock, bulkUpdateStock or createOrder call whose ledger entries
\* record the new stock; updateSku and every other step leave all stock alone.
C15_StockChangesOnlyByAdjustment ==
  [][/\ \A s \in SkuIds :
          (sku[s].exists /\ sku'[s] # sku[s])
            => \E p \in Procs :
                 /\ AdjustmentCommits(p)
                 /\ \E i \in (Len(ledger) + 1)..Len(ledger') :
                      ledger'[i].skuId = s /\ ledger'[i].newStock = sku'[s].stock
     /\ \A p \in Procs :
          (call'[p].op \in {"updateSku", "updateSettings", "findLowStock"} /\ Stepped(p))
            => sku' = sku]_vars

\* updateSku has changed the price and the threshold of a SKU whose stock an
\* adjustment has changed as well
C15_Witness ==
  /\ \E p \in Procs : call[p].op = "updateSku" /\ call[p].pc = "done"
  /\ \E q \in Procs : call[q].op = "adjustStock" /\ call[q].pc = "done"
  /\ reorderThreshold["A"] = Num(1) /\ price["A"] = 0
  /\ sku["A"].stock # initialStock["A"]

\* C17: the stock of every SKU is an integer in every reachable state (a
\* multiple of StockScale, where numbers count 1/StockScale units).
C17_StockIntegral ==
  \A s \in SkuIds : sku[s].stock % StockScale = 0

RECURSIVE SumLineTotal(_)
SumLineTotal(items) ==
  IF items = <<>> THEN 0 ELSE Head(items).lineTotal + SumLineTotal(Tail(items))

\* C14: every persisted order has subTotal = round2(sum of lineTotal) and
\* total = subTotal + tax exactly.
C14_TotalsExact ==
  \A i \in 1..Len(orders) :
    /\ orders[i].subTotal = ((SumLineTotal(orders[i].items) + 5) \div 10) * 10
    /\ orders[i].total = orders[i].subTotal + orders[i].tax

\* the checks of one line item, against the stock the transaction has read
ItemPassed(p, item) ==
  /\ item.skuId # NoSku
  /\ item.quantity >= 1
  /\ txn[p].snap[item.skuId].exists
  /\ txn[p].snap[item.skuId].stock >= item.quantity

TaxInputValid(c) ==
  IF c.tax # NullValue THEN c.tax.kind = "num" /\ c.tax.val >= 0
  ELSE c.taxRate # NullValue => (c.taxRate.kind = "num" /\ c.taxRate.val >= 0)

\* C20: createOrder issues no stock write and no ledger write until every line
\* item has passed all of its checks and the tax input has been validated.
C20_ValidationBeforeMutation ==
  [][\A p \in Procs :
       (call[p].op = "createOrder" /\ txn'[p].state = "active"
          /\ (txn'[p].wsku # txn[p].wsku \/ txn'[p].wledger # txn[p].wledger))
         => /\ call[p].pc = "deduct"
            /\ Len(call[p].prepared) = Len(call[p].list)
            /\ \A k \in 1..Len(call[p].list) : ItemPassed(p, call[p].list[k])
            /\ TaxInputValid(call[p])]_vars

\* an order with a tax rate has made its first deduction, and another order
\* was refused for its tax input after both of its line items had passed
C20_Witness ==
  \E p \in Procs, q \in Procs :
    /\ call[p].op = "createOrder" /\ call[p].pc \in {"deduct", "save"}
    /\ call[p].taxRate # NullValue /\ txn[p].wledger # <<>>
    /\ call[q].op = "createOrder" /\ call[q].pc = "failed" /\ call[q].stage = "tax"

(* ------------------- adjustStock and its unit of work ------------------ *)
\* C19: an adjustStock call without a session changes the store in the one
\* step in which it returns successfully, and then the SKU's stock and its
\* ledger entry become visible together; a call that fails, whatever the
\* reason, has changed neither.  An adjustment made inside createOrder's
\* transaction writes to that transaction only and leaves it active.
C19_AdjustStockAtomic ==
  [][\A p \in Procs :
       /\ (call'[p] # call[p] /\ call'[p].op = "adjustStock") =>
            IF call'[p].pc = "done"
              THEN LET e == call[p].results[1]
                   IN /\ call[p].pc = "commit"
                      /\ e.skuId = call[p].skuId
                      /\ e.change = ToNumber(call[p].delta).val
                      /\ ledger' = Append(ledger, e)
                      /\ sku'[e.skuId].stock = e.newStock
                      /\ \A o \in SkuIds \ {e.skuId} : sku'[o] = sku[o]
              ELSE /\ sku' = sku /\ ledger' = ledger
                   /\ call'[p].pc = "failed" => txn'[p] = NoTxn
       /\ (call'[p] # call[p] /\ call[p].op = "createOrder" /\ call[p].pc = "deduct") =>
            /\ sku' = sku /\ ledger' = ledger /\ orders' = orders
            /\ call'[p].pc # "failed" =>
                 /\ txn'[p].state = "active"
                 /\ Len(txn'[p].wledger) = Len(txn[p].wledger) + 1
                 /\ SubSeq(txn'[p].wledger, 1, Len(txn[p].wledger)) = txn[p].wledger
    ]_vars

\* a standalone adjustment has failed in its callback on a storage failure
\* with the store as it was, while an order's transaction holds an adjustment
\* that is not yet visible
C19_Witness ==
  \E p, q \in Procs :
    /\ call[p].op = "adjustStock" /\ call[p].pc = "failed"
    /\ call[p].stage = "body" /\ call[p].err = StorageErr
    /\ \A i \in 1..Len(ledger) : ledger[i].reason = "Initial stock"
    /\ \A s \in SkuIds : sku[s].exists => sku[s].stock = initialStock[s]
    /\ call[q].op = "createOrder" /\ call[q].pc \in {"deduct", "save"}
    /\ txn[q].state = "active" /\ txn[q].wledger # <<>>

(* ----------------------------- errorHandler ---------------------------- *)
\* the codes of the errors built with createHttpError
HttpCodes ==
  {"INVALID_INPUT", "SKU_NOT_FOUND", "PRODUCT_NOT_FOUND", "INSUFFICIENT_STOCK",
   "DUPLICATE_BARCODE", "SERVER_ERROR"}

\* the statusCode createHttpError is called with for each code
statusCodeOf(code) ==
  IF code \in {"SKU_NOT_FOUND", "PRODUCT_NOT_FOUND"} THEN 404 ELSE IF code = "SERVER_ERROR" THEN 500 ELSE 400

\* the error object a failed call hands to next(error): statusCode (0 when the
\* property is absent), code ("" when absent) and message.  The errors of the
\* store and of the driver carry a message only; sanitizePayload's Error
\* carries statusCode 400 and no code.
thrown(e) ==
  IF e.code \in HttpCodes
    THEN [statusCode |-> statusCodeOf(e.code), code |-> e.code, message |-> e.message]
  ELSE IF e.code = "Error" THEN [statusCode |-> 400, code |-> "", message |-> e.message]
  ELSE [statusCode |-> 0, code |-> "", message |-> e.message]

\* the response of the error middleware
errorHandler(err) ==
  [status |-> IF err.statusCode # 0 THEN err.statusCode ELSE 500,
   message |-> IF err.message # "" THEN err.message ELSE "Internal server error",
   code |-> IF err.code # "" THEN err.code ELSE "SERVER_ERROR"]

\* C21: a failure whose error carries neither a status nor a code reaches the
\* caller as status 500, code SERVER_ERROR and a message that is not the
\* underlying error's own text.
C21_UnexpectedFailureGeneric ==
  \A p \in Procs :
    (call[p].pc = "failed" /\ thrown(call[p].err).statusCode = 0
                           /\ thrown(call[p].err).code = "") =>
      /\ errorHandler(thrown(call[p].err)).status = 500
      /\ errorHandler(thrown(call[p].err)).code = "SERVER_ERROR"
      /\ errorHandler(thrown(call[p].err)).message # call[p].err.message

(* ------------------------------ order tax ------------------------------ *)
\* x (in thousandths) is the amount in millionths m rounded to hundredths
IsRound2(x, m) ==
  /\ x % 10 = 0
  /\ x * 1000 - m <= 5000
  /\ m - x * 1000 < 5000 + 1

\* C22: once the validation of an order is over, its tax is the explicit tax
\* amount when one is given (also when a rate is given too), else
\* round2(subTotal x rate) when a rate is given, else 0; a negative or
\* non-finite tax amount, or such a rate when no amount is given, fails the
\* call with INVALID_INPUT; and 2 x 10.00 plus 1 x 5.50 at rate 0.1 give
\* subTotal 25.50, tax 2.55 and total 28.05.
C22_TaxChoice ==
  \A p \in Procs :
    /\ (call[p].op = "createOrder" /\ call[p].pc \in {"deduct", "save", "commit"}) =>
         /\ call[p].subTotal = SumLineTotal(call[p].prepared)
         /\ IF call[p].tax # NullValue
              THEN /\ call[p].tax.kind = "num" /\ call[p].tax.val >= 0
                   /\ call[p].taxAmount = call[p].tax.val
            ELSE IF call[p].taxRate # NullValue
              THEN /\ call[p].taxRate.kind = "num" /\ call[p].taxRate.val >= 0
                   /\ IsRound2(call[p].taxAmount, call[p].subTotal * call[p].taxRate.val)
            ELSE call[p].taxAmount = 0
         /\ (/\ call[p].tax = NullValue /\ call[p].taxRate = Num(RateTenth)
             /\ Len(call[p].prepared) = 2
             /\ call[p].prepared[1].lineTotal = 2 * PriceTen
             /\ call[p].prepared[2].lineTotal = PriceFiveFifty) =>
              /\ OrderDoc(call[p]).subTotal = 25500
              /\ OrderDoc(call[p]).tax = 2550
              /\ OrderDoc(call[p]).total = 28050
    /\ (call[p].op = "createOrder" /\ call[p].pc = "failed" /\ call[p].stage = "tax") =>
         call[p].err.code = "INVALID_INPUT"

\* the order of the example is about to be saved, and another order with both
\* a tax amount and a rate has passed its validation
C22_Witness ==
  \E p, q \in Procs :
    /\ call[p].op = "createOrder" /\ call[p].pc = "save"
    /\ call[p].tax = NullValue /\ call[p].taxRate = Num(RateTenth)
    /\ Len(call[p].prepared) = 2
    /\ call[p].prepared[1].lineTotal = 2 * PriceTen
    /\ call[p].prepared[2].lineTotal = PriceFiveFifty
    /\ call[q].op = "createOrder" /\ call[q].pc \in {"deduct", "save", "commit"}
    /\ call[q].tax # NullValue /\ call[q].taxRate # NullValue

(* --------------------------- append-only ledger ------------------------ *)
\* C23: every step leaves the entries the ledger already holds in place and
\* unchanged: the ledger after a step begins with the ledger before it.
C23_LedgerAppendOnly ==
  [][/\ Len(ledger') >= Len(ledger)
     /\ SubSeq(ledger', 1, Len(ledger)) = ledger]_vars

\* two adjustments were committed one after the other on top of the entries
\* of the initial stock
C23_Witness ==
  \E i, j \in 1..Len(ledger) :
    /\ i < j
    /\ ledger[i].reason # "Initial stock"
    /\ ledger[j].reason # "Initial stock"
    /\ \E p \in Procs : call[p].pc = "done" /\ call[p].op \in {"adjustStock", "createOrder"}

(* ------------------- bulkUpdateStock as a sequence --------------------- *)
\* the sum of the deltas a list of well-formed adjustments has for SKU s
RECURSIVE SumDelta(_, _)
SumDelta(adjustments, s) ==
  IF adjustments = <<>> THEN 0
  ELSE (IF Head(adjustments).skuId = s THEN Head(adjustments).delta.val ELSE 0)
       + SumDelta(Tail(adjustments), s)

\* an adjustment the loop passes on to the store: payload complete, delta a
\* number, SKU present when the transaction began
Applicable(t, a) ==
  /\ a.skuId \in SkuIds /\ a.delta.kind = "num" /\ a.reason # ""
  /\ t.snap[a.skuId].exists

C25_LedgerChain ==
  \A s \in SkuIds :
    (sku[s].exists /\ EntriesFor(s) # {}) =>
      /\ \A i \in EntriesFor(s) :
           (\A j \in EntriesFor(s) : i <= j) =>
             ledger[i].previousStock \in {0, initialStock[s]}
      /\ \A i, j \in EntriesFor(s) :
           (i < j /\ \A k \in EntriesFor(s) : ~(i < k /\ k < j)) =>
             ledger[j].previousStock = ledger[i].newStock
      /\ LastEntry(s).newStock = sku[s].stock

(* ------------------------ bulkUpdateStock results ---------------------- *)
\* C26: a bulkUpdateStock call that returns successfully returns one result
\* per requested adjustment, in the order of the request, and every result is
\* an entry its commit has written, also after the callback was run again.
C26_OneResultPerAdjustment ==
  [][\A p \in Procs :
       (call[p].op = "bulkUpdateStock" /\ call[p].pc = "commit" /\ call'[p].pc = "done") =>
         /\ Len(call'[p].results) = Len(call[p].list)
         /\ \A k \in 1..Len(call[p].list) :
              /\ call'[p].results[k].skuId = call[p].list[k].skuId
              /\ call'[p].results[k].change = call[p].list[k].delta.val
         /\ call'[p].results = txn[p].wledger
    ]_vars

(* ---------------------------- order numbers ---------------------------- *)
\* C27: the order numbers of the persisted orders are pairwise distinct, and a
\* createOrder call that comes to save an order whose number a persisted order
\* already has fails in that step, its pending deductions are discarded, and
\* the SKU stock, the ledger and the orders stay as they were.
C27_OrderNumbersDistinct ==
  /\ [](\A i, j \in 1..Len(orders) :
          orders[i].orderNumber = orders[j].orderNumber => i = j)
  /\ [][\A p \in Procs :
          (/\ call[p].op = "createOrder" /\ call[p].pc = "save"
           /\ call'[p] # call[p]
           /\ \E i \in 1..Len(orders) : orders[i].orderNumber = call[p].orderNumber) =>
            /\ call'[p].pc = "failed"
            /\ txn'[p] = NoTxn
            /\ sku' = sku /\ ledger' = ledger /\ orders' = orders]_vars

\* an order is persisted and a later call with the same order number has
\* failed on the unique index, with the stock as the first order left it
C27_Witness ==
  \E p \in Procs :
    /\ call[p].op = "createOrder" /\ call[p].pc = "failed"
    /\ call[p].stage = "save" /\ call[p].err.code = "E11000"
    /\ Len(orders) = 1
    /\ Len(ledger) = Len(InitialLedger(initialStock["A"], initialStock["B"]))
                       + Len(orders[1].items)

(* ----------------------------- createProduct --------------------------- *)
\* C28: when a createProduct call with an initial stock returns, either the
\* product, its default SKU and (for a stock > 0) the SKU's 'Initial stock'
\* entry all exist and skuCount is 1, or, when the creation of the default SKU
\* failed, the product does not exist, the SKU does not exist and the ledger
\* has no entry for it.
C28_CreateProductAllOrNothing ==
  [][\A p \in Procs :
       (call[p].op = "createProduct" /\ call[p].pc \in {"history", "cleanup"}
          /\ call'[p].pc \in {"done", "failed"}) =>
         IF call'[p].pc = "done"
           THEN /\ product' /\ skuCount' = 1
                /\ sku'[call[p].skuId] = [exists |-> TRUE, stock |-> call[p].stock]
                /\ call[p].stock > 0 =>
                     \E i \in 1..Len(ledger') :
                       /\ ledger'[i].skuId = call[p].skuId
                       /\ ledger'[i].reason = "Initial stock"
                       /\ ledger'[i].newStock = call[p].stock
           ELSE /\ ~product'
                /\ ~sku'[call[p].skuId].exists
                /\ \A i \in 1..Len(ledger') : ledger'[i].skuId # call[p].skuId
    ]_vars

(* -------------------------- barcode generation ------------------------- *)
\* C29: the generation loop of createSku makes at most 5 attempts, and a call
\* that is the only call made so far (so that no other creation runs beside
\* it) generates a barcode that no SKU holds and does not end on the internal
\* error of the exhausted loop.
C29_BarcodeFoundWithoutConcurrency ==
  \A p \in Procs :
    /\ call[p].attempts < MaxBarcodeAttempts
    /\ (call[p].op = "createSku" /\ ncalls = 1) =>
         /\ call[p].pc = "barcode" => ~BarcodeExists(generateBarcode)
         /\ ~(call[p].pc = "failed" /\ call[p].err.code = "SERVER_ERROR")

(* ------------------------ product recomputation ------------------------ *)
\* C30: the recomputation of the parent product that a SKU save triggers is
\* part of the unit of work of the adjustment: a step of a createOrder,
\* adjustStock or bulkUpdateStock call changes the Product record only when it
\* is the commit of the call, so a call that fails leaves the record as it
\* was, and the value the commit leaves is the sum of the committed stock.
C30_ProductFollowsCommit ==
  [][\A p \in Procs :
       (call'[p] # call[p]
          /\ call'[p].op \in {"createOrder", "adjustStock", "bulkUpdateStock"}) =>
         IF call[p].pc = "commit" /\ call'[p].pc = "done"
           THEN product => totalStock' = SumStock(sku')
           ELSE totalStock' = totalStock
    ]_vars

====
